---- MODULE Spec2Model ----
(***************************************************************************)
(* State-machine model of the qwen-code-oai-proxy dispatch core: the       *)
(* account refresh scheduler (src/src/utils/accountRefreshScheduler.js),   *)
(* the token-refresh merge (docs/api-endpoint-resolution, kept in          *)
(* src/unnamed/part_003) and the account pool / request router that the    *)
(* scheduler and the HTTP handlers call into; and of the edge of the       *)
(* proxy: the SSE chunk handler (src/unnamed/part_003), the streaming      *)
(* chat-completion handler (src/unnamed/part_005), the API-key store       *)
(* (src/src/utils/apiKeyManager.js) and the API-key validator              *)
(* (src/src/dashboard/middleware/auth.js).                                 *)
(*                                                                         *)
(* Time is kept in milliseconds, as Date.now() is; expires_in is in        *)
(* seconds, as the vendor returns it.                                      *)
(***************************************************************************)
EXTENDS Integers, Sequences, FiniteSets, TLC

(***************************************************************************)
(* Bounds of the model.                                                    *)
(***************************************************************************)
\* number of setInterval callbacks that invoke checkAndRefreshExpiredAccounts
MaxTicks == 2
\* number of clock advances (each of one element of ClockSteps)
MaxAdvances == 1
\* number of client requests
MaxRequests == 1
\* number of lines of an upstream SSE body
MaxLines == 3
\* number of chunks a streaming response delivers
MaxChunks == 2
\* number of API keys that are created
MaxKeys == 2
\* number of requests that present an API key
MaxKeyRequests == 4
\* number of those requests when keys are created, updated and deleted as well
MaxSerialRequests == 2
\* number of steps of the clock between requests that present an API key
MaxKeyTicks == 2
\* number of writeJson calls on one storage file
MaxWriters == 2
\* number of device flows that are initiated
MaxFlows == 2
\* number of status requests of the dashboard for device flows
MaxFlowRequests == 3
\* number of steps of the clock between the requests of the dashboard
MaxFlowTicks == 3
\* requests the handlers of the proxy answer
MaxResponses == 2
\* requests that are counted in request_counts.json
MaxCounted == 3
\* calls of startScheduler
MaxStarts == 2

(***************************************************************************)
(* Program constants.                                                      *)
(***************************************************************************)
MsPerMinute == 60000
MsPerSecond == 1000
AlwaysRefreshMinutes == 10
MinThresholdMinutes == 10
ThresholdSpread == 21
batchSize == 20
\* upper limit of account attempts per request
MaxAttempts == 3
\* consecutive_auth_errors at which an account stops being eligible
AuthErrorThreshold == 3
\* a credential expiring within this many seconds is refreshed before use
SkewSeconds == 60
MsPerDay == 86400000

(***************************************************************************)
(* Finite domains the inputs are drawn from.                               *)
(***************************************************************************)
KeyRequests == 1..MaxKeyRequests
\* every account id that can be configured
AccountUniverse ==
  {"a1", "a2", "a3", "a4", "a5", "a6", "a7", "a8", "a9", "a10", "a11", "a12",
   "a13", "a14", "a15", "a16", "a17", "a18", "a19", "a20", "a21", "a22", "a23"}
Ticks == 1..MaxTicks
\* minutes by which the clock may jump between two steps of the program
ClockSteps == {10}
\* remaining lifetime, in seconds, of the tokens loaded at startup
InitLifetime ==
  [a \in AccountUniverse |->
     IF a = "a3" THEN 630 ELSE IF a \in {"a2", "a4"} THEN 1500 ELSE 300]
\* expires_in values (seconds) of the vendor's token response
ExpiresIns == {60, 3600}
Absent == "absent"
Empty == ""
NoOwner == <<"free", 0>>
NoAccount == "none"

TickOwner(t) == <<"tick", t>>
ForceOwner == <<"force", 0>>
Requests == 1..MaxRequests
ReqOwner(r) == <<"req", r>>
Owners == {TickOwner(t) : t \in Ticks} \cup {ForceOwner} \cup {ReqOwner(r) : r \in Requests}

\* tokenData of a successful refresh response
TokenData ==
  [access_token : {"T1"},
   token_type : {"Bearer"},
   refresh_token : {Absent, Empty, "R1"},
   resource_url : {Absent, Empty, "U1"},
   expires_in : ExpiresIns]
\* the responses in which the vendor sends neither refresh_token nor resource_url
TokenDataPlain == {td \in TokenData : td.refresh_token = Absent /\ td.resource_url = Absent}
\* errors of the refresh call to the vendor
RefreshErrors == {"invalid_grant", "network"}

VARIABLES
  now,            \* Date.now()
  AccountIds,     \* authManager.getAccountIds(): the configured accounts, in order
  accounts,       \* authManager.accounts: account id -> credentials
  accountLocks,   \* account id -> owner of the per-account refresh lock
  inflight,       \* account id -> number of refresh exchanges in flight
  authDead,       \* account id -> invalid_grant was seen
  isRefreshing,   \* AccountRefreshScheduler.isRefreshing
  tickPc,         \* per invocation of checkAndRefreshExpiredAccounts
  accountsToRefresh, \* per invocation: the selected account ids, in order
  batchIndex,     \* per invocation: i of the batch loop
  tickTask,       \* per invocation, per account: state of its refresh task
                  \* ("locked": performTokenRefresh found the lock held)
  tickLoaded,     \* per invocation: loadAllAccounts was called
  taskCreds,      \* owner -> credentials snapshot handed to performTokenRefresh
  forcePc, forceIdx, successCount, failCount,
  advances,       \* clock advances so far
  lastRefresh,    \* the most recent successful refresh (history)
  authErrors,     \* account id -> consecutive_auth_errors
  quotaUntil,     \* account id -> quota_exhausted_until (0: not marked)
  lastUsed,       \* account id -> last_used_timestamp (0: never)
  requestCounts,  \* account id -> UTC day number -> requests counted
  reqPc,          \* per client request: where its attempt loop stands
  reqAccount,     \* per client request: the account of the current attempt
  attempts,       \* per client request: account attempts made
  attemptsMax,    \* per client request: attempts_max fixed when it started
  retried,        \* per client request: the inline refresh of this attempt was used
  reqResult,      \* per client request: what the client received
  reqEvent,       \* per client request: the last thing that happened to it (history)
  lastResponse,   \* per client request: the last upstream response (history)
  served,         \* per client request: account and time of its 2xx (history)
  sseText,        \* the bytes of the upstream response body, in order
  ssePos,         \* how many of them have arrived in chunks so far
  sseBuffer,      \* SSEChunkHandler.buffer
  sseEmitted,     \* the chunks SSEChunkHandler has pushed, in order
  sseEnded,       \* _flush has run
  strPc,          \* handleStreamingChatCompletion: where the handler is
  stream,         \* the stream streamChatCompletions returned
  resHeadersSent, \* res.headersSent
  resBody,        \* what has been written to res, in order
  resEnded,       \* res.end() has been called
  reqClosed,      \* req has emitted 'close': the client has disconnected
  keysFile,       \* api_keys.json: keys, key id -> key record
  statsFile,      \* key_usage_stats.json: daily and keyStats
  keyRateLimiters, \* ApiKeyMiddleware.keyRateLimiters: key id -> limiter
  created,        \* key id -> what createKey returned for it (history)
  deleted,        \* the key ids deleteKey has removed (history)
  statusSet,      \* key id -> the status the last updateKey gave it (history)
  keyReq,         \* per request that presents a key: where the validator is
  adm,            \* the dashboard operation in progress
  inodes,         \* the file system: inode number -> text
  filePath,       \* the inode filePath names
  tempPath,       \* the inode tempPath (filePath + '.tmp') names, 0: no such file
  writers,        \* per writeJson call: where it is, and its open file
  crashed,        \* the process was killed
  readSeen,       \* what the last readJson returned
  activeDeviceFlows, \* AccountRoutes.activeDeviceFlows: device code -> flowData
  issued,         \* the device flows initiateDeviceFlow has returned, in order (history)
  polls,          \* the calls of pollForToken so far (history)
  flowReq,        \* per status request of the dashboard: where the handler is
  config,         \* config.js: the configured defaults of the chat parameters
  responses,      \* what the handlers of the proxy have answered, in order (history)
  calls,          \* the calls of the QwenAPI client the handlers made, in order (history)
  countsFile,     \* request_counts.json
  usageReport,    \* what the last usage report showed: UTC day number -> usage
  refreshInterval, \* AccountRefreshScheduler.refreshInterval (0: null)
  timers,         \* the intervals set and not cleared
  timersMade,     \* calls of setInterval so far
  startPc,        \* per call of startScheduler: where it is
  startCheck,     \* per call of startScheduler: the check it awaits
  stopped,        \* stopScheduler has returned and startScheduler was not
                  \* called since (history)
  stopCalls,      \* calls of stopScheduler so far (history)
  checkBy,        \* per invocation of the check: who called it (history)
  sigPc,          \* per signal: where its handler is
  sigAt           \* per signal: Date.now() when it arrived (history)

vars == <<now, AccountIds, accounts, accountLocks, inflight, authDead, isRefreshing, tickPc,
          accountsToRefresh, batchIndex, tickTask, tickLoaded, taskCreds,
          forcePc, forceIdx, successCount, failCount, advances, lastRefresh,
          authErrors, quotaUntil, lastUsed, requestCounts, reqPc, reqAccount, attempts,
          attemptsMax, retried, reqResult, reqEvent, lastResponse, served,
          sseText, ssePos, sseBuffer, sseEmitted, sseEnded,
          strPc, stream, resHeadersSent, resBody, resEnded, reqClosed,
          keysFile, statsFile, keyRateLimiters, created, deleted, statusSet, keyReq, adm,
          inodes, filePath, tempPath, writers, crashed, readSeen,
          activeDeviceFlows, issued, polls, flowReq, config, responses, calls,
          countsFile, usageReport,
          refreshInterval, timers, timersMade, startPc, startCheck, stopped, stopCalls,
          checkBy, sigPc, sigAt>>

\* the configured accounts
Accounts == {AccountIds[i] : i \in 1..Len(AccountIds)}

checkVars == <<isRefreshing, tickPc, accountsToRefresh, batchIndex, tickTask, tickLoaded>>
timerVars == <<refreshInterval, timers, timersMade, startPc, startCheck, stopped, stopCalls,
               checkBy, sigPc, sigAt>>
schedVars == <<checkVars, timerVars>>
forceVars == <<forcePc, forceIdx, successCount, failCount>>
envVars == <<now, advances, AccountIds>>
lockVars == <<accountLocks, inflight, taskCreds>>
credVars == <<accounts, authDead, lastRefresh, authErrors>>
reqVars == <<reqPc, reqAccount, attempts, attemptsMax, retried, reqResult, reqEvent,
             lastResponse, served>>
usageVars == <<quotaUntil, lastUsed, requestCounts>>
sseVars == <<sseText, ssePos, sseBuffer, sseEmitted, sseEnded>>
\* the variables of the edge of the proxy: streams and API keys
streamVars == <<strPc, stream, resHeadersSent, resBody, resEnded, reqClosed>>
keyVars == <<keysFile, statsFile, keyRateLimiters, created, deleted, statusSet, keyReq, adm>>
storeVars == <<inodes, filePath, tempPath, writers, crashed, readSeen>>
\* the variables of the dashboard and of the remaining handlers
flowVars == <<activeDeviceFlows, issued, polls, flowReq>>
callVars == <<config, responses, calls>>
countVars == <<countsFile, usageReport>>
siteVars == <<storeVars, flowVars, callVars, countVars>>
\* what the storage files, the device flows, and the handlers of the proxy
\* leave alone of these
offStoreVars == <<flowVars, callVars, countVars>>
offFlowVars == <<storeVars, callVars, countVars>>
offCallVars == <<storeVars, flowVars, countVars>>
edgeVars == <<sseVars, streamVars, keyVars, siteVars>>
\* the variables of the dispatch core
coreVars == <<envVars, lockVars, credVars, schedVars, forceVars, reqVars, usageVars>>

NoCreds == [access_token |-> "", token_type |-> "", refresh_token |-> "",
            resource_url |-> "", expiry_date |-> 0]
NoTokenData == [access_token |-> "", token_type |-> "", refresh_token |-> Absent,
                resource_url |-> Absent, expires_in |-> 0]
NoRefresh == [account |-> NoAccount, before |-> NoCreds, after |-> NoCreds,
              tokenData |-> NoTokenData, at |-> 0]

(***************************************************************************)
(* Pure helpers.                                                           *)
(***************************************************************************)
\* mutant: the fallback is dropped
JsOrFirst(x, y) == x
\* JavaScript's x || y on the string-or-undefined values of the model
JsOr(x, y) == IF x \in {Absent, Empty} THEN y ELSE x

RECURSIVE SelectSeqIn(_, _)
\* the subsequence of s whose elements are in S
SelectSeqIn(s, S) ==
  IF s = <<>> THEN <<>>
  ELSE IF Head(s) \in S THEN <<Head(s)>> \o SelectSeqIn(Tail(s), S)
       ELSE SelectSeqIn(Tail(s), S)

Min(a, b) == IF a <= b THEN a ELSE b

(***************************************************************************)
(* Token refresh: QwenAuthManager.performTokenRefresh.                     *)
(***************************************************************************)
\* mutant: expires_in is taken for milliseconds
NewCredentialsUnscaled(credentials, tokenData, dateNow) ==
  [credentials EXCEPT
     !.access_token = tokenData.access_token,
     !.token_type = tokenData.token_type,
     !.refresh_token = JsOr(tokenData.refresh_token, credentials.refresh_token),
     !.resource_url = JsOr(tokenData.resource_url, credentials.resource_url),
     !.expiry_date = dateNow + tokenData.expires_in]
\* the credential bundle written after a successful refresh exchange
NewCredentials(credentials, tokenData, dateNow) ==
  [credentials EXCEPT
     !.access_token = tokenData.access_token,
     !.token_type = tokenData.token_type,
     !.refresh_token = JsOr(tokenData.refresh_token, credentials.refresh_token),
     !.resource_url = JsOr(tokenData.resource_url, credentials.resource_url),
     !.expiry_date = dateNow + tokenData.expires_in * MsPerSecond]

\* try_lock_for_refresh as performTokenRefresh uses it: the lock is free, or the
\* caller already holds it (forceRefreshAllAccounts takes it before the call)
CanLockForRefresh(owner, a) == accountLocks[a] \in {NoOwner, owner}

\* mutant: forceRefreshAllAccounts goes on whatever acquireAccountLock returned
AcquireAccountLockIgnored(a) == TRUE
\* line 211: qwenAPI.acquireAccountLock, a try-lock that is true when the lock
\* was free
AcquireAccountLock(a) == accountLocks[a] = NoOwner

\* the accounts of B whose refresh exchange `owner` gets to start
Started(owner, B) == {a \in B : CanLockForRefresh(owner, a)}

\* performTokenRefresh called by `owner` for every account of B, each with the
\* credentials the caller has read just before the call (line 134 for a batch)
StartRefreshes(owner, B) ==
  /\ accountLocks' = [a \in AccountUniverse |->
        IF a \in Started(owner, B) THEN owner ELSE accountLocks[a]]
  /\ inflight' = [a \in AccountUniverse |->
        IF a \in Started(owner, B) THEN inflight[a] + 1 ELSE inflight[a]]
  /\ taskCreds' = [taskCreds EXCEPT ![owner] = [a \in AccountUniverse |->
        IF a \in Started(owner, B) THEN accounts[a] ELSE @[a]]]

\* the exchange of `owner` for account a ends: the lock is released, the
\* snapshot is dropped
EndRefresh(owner, a) ==
  /\ accountLocks' = [accountLocks EXCEPT ![a] = NoOwner]
  /\ inflight' = [inflight EXCEPT ![a] = @ - 1]
  /\ taskCreds' = [taskCreds EXCEPT ![owner][a] = NoCreds]

\* the outcomes of a refresh call whose successful responses are drawn from TD
RefreshReplies(TD) ==
  {[ok |-> TRUE, tokenData |-> td, error |-> ""] : td \in TD}
    \cup {[ok |-> FALSE, tokenData |-> NoTokenData, error |-> e] : e \in RefreshErrors}

\* the vendor answered with tokenData: merge, save, remember the event
RefreshSucceeds(owner, a, tokenData) ==
  /\ accounts' = [accounts EXCEPT
        ![a] = NewCredentials(taskCreds[owner][a], tokenData, now)]
  /\ lastRefresh' = [account |-> a, before |-> accounts[a],
                     after |-> NewCredentials(taskCreds[owner][a], tokenData, now),
                     tokenData |-> tokenData, at |-> now]
  /\ authErrors' = [authErrors EXCEPT ![a] = 0]
  /\ UNCHANGED authDead

\* the vendor answered with an error, or the call failed
RefreshFails(owner, a, err) ==
  /\ authDead' = [authDead EXCEPT ![a] = @ \/ err = "invalid_grant"]
  /\ UNCHANGED <<accounts, lastRefresh, authErrors>>

\* performTokenRefresh returns or throws, as the reply says
RefreshSettles(owner, a, reply) ==
  /\ IF reply.ok THEN RefreshSucceeds(owner, a, reply.tokenData)
                 ELSE RefreshFails(owner, a, reply.error)
  /\ EndRefresh(owner, a)

(***************************************************************************)
(* AccountRefreshScheduler.checkAndRefreshExpiredAccounts, one run per     *)
(* element of Ticks (the setInterval callbacks of startScheduler).         *)
(***************************************************************************)
Thresholds == MinThresholdMinutes .. (MinThresholdMinutes + ThresholdSpread - 1)

\* mutant: only the accounts that are already expired are selected
SelectedWhenExpired(a, R) == accounts[a].expiry_date <= now
\* lines 93-113: is account a put on accountsToRefresh, given its threshold R
SelectedForRefresh(a, R) ==
  LET expiry == accounts[a].expiry_date
      isExpired == expiry <= now
  IN \/ isExpired
     \/ expiry - now <= AlwaysRefreshMinutes * MsPerMinute
     \/ expiry - now <= R * MsPerMinute

\* lines 84-120: the sets of accounts the selection loop can come up with, over
\* the thresholds Math.random() can give each account
PossibleSelections ==
  LET always == {a \in Accounts : \A R \in Thresholds : SelectedForRefresh(a, R)}
      sometimes == {a \in Accounts : \E R \in Thresholds : SelectedForRefresh(a, R)}
  IN {always \cup some : some \in SUBSET (sometimes \ always)}

\* mutant: everything from index i on goes into one batch
BatchAtRest(list, i) == {list[k] : k \in (i + 1) .. Len(list)}
\* lines 129-130: the batch that starts at index i (0-based) of the list
BatchAt(list, i) ==
  {list[k] : k \in (i + 1) .. Min(i + batchSize, Len(list))}

\* mutant: the flag is left as it is when a check ends
FinallyKeepsFlag == UNCHANGED isRefreshing
\* lines 176-179: the `finally` of the check
Finally == isRefreshing' = FALSE

\* mutant: the re-entry guard is missing
CheckGuardAlwaysOpen == TRUE
\* line 59: the check may proceed
CheckGuardOpen == ~isRefreshing

\* lines 57-71: checkAndRefreshExpiredAccounts is called; the run is dropped,
\* or it sets the flag and starts loading the accounts
CheckCalled(t) ==
  /\ tickPc[t] = "idle"
  /\ UNCHANGED edgeVars
  /\ \A u \in Ticks : u < t => tickPc[u] # "idle"
  /\ IF CheckGuardOpen
       THEN /\ isRefreshing' = TRUE
            /\ tickPc' = [tickPc EXCEPT ![t] = "loading"]
            /\ tickLoaded' = [tickLoaded EXCEPT ![t] = TRUE]
       ELSE /\ tickPc' = [tickPc EXCEPT ![t] = "skipped"]
            /\ UNCHANGED <<isRefreshing, tickLoaded>>
  /\ UNCHANGED <<accountsToRefresh, batchIndex, tickTask>>
  /\ UNCHANGED <<envVars, lockVars, credVars, forceVars, reqVars, usageVars>>

\* lines 34-37: a tick fires, whatever the interval that carries it
CheckEnter(t) == CheckCalled(t) /\ UNCHANGED timerVars

\* lines 73-167: the accounts are loaded; select, then start the first batch,
\* or leave through `finally` when nothing needs a refresh
CheckSelect(t) ==
  /\ tickPc[t] = "loading"
  /\ UNCHANGED edgeVars
  /\ \E sel \in PossibleSelections :
       LET list == SelectSeqIn(AccountIds, sel)
           batch == BatchAt(list, 0)
       IN /\ IF list = <<>>
               THEN /\ Finally
                    /\ tickPc' = [tickPc EXCEPT ![t] = "done"]
                    /\ UNCHANGED <<accountLocks, inflight, taskCreds, tickTask,
                                   accountsToRefresh>>
               ELSE /\ tickPc' = [tickPc EXCEPT ![t] = "batch"]
                    /\ accountsToRefresh' = [accountsToRefresh EXCEPT ![t] = list]
                    /\ StartRefreshes(TickOwner(t), batch)
                    /\ tickTask' = [tickTask EXCEPT ![t] = [a \in AccountUniverse |->
                          IF a \in Started(TickOwner(t), batch) THEN "inflight"
                          ELSE IF a \in batch THEN "locked" ELSE @[a]]]
                    /\ UNCHANGED isRefreshing
  /\ batchIndex' = [batchIndex EXCEPT ![t] = 0]
  /\ UNCHANGED <<envVars, credVars, tickLoaded, timerVars, forceVars, reqVars, usageVars>>

\* lines 71, 174-179: loadAllAccounts rejects; the error is logged and the
\* run leaves through `finally`
CheckThrows(t) ==
  /\ tickPc[t] = "loading"
  /\ UNCHANGED edgeVars
  /\ Finally
  /\ tickPc' = [tickPc EXCEPT ![t] = "done"]
  /\ UNCHANGED <<accountsToRefresh, batchIndex, tickTask, tickLoaded, timerVars>>
  /\ UNCHANGED <<envVars, lockVars, credVars, forceVars, reqVars, usageVars>>

\* lines 161-165: one refresh of the current batch settles
TickTaskDone(t, a, reply) ==
  /\ tickPc[t] = "batch"
  /\ UNCHANGED edgeVars
  /\ tickTask[t][a] = "inflight"
  /\ RefreshSettles(TickOwner(t), a, reply)
  /\ tickTask' = [tickTask EXCEPT ![t][a] = IF reply.ok THEN "refreshed" ELSE "failed"]
  /\ UNCHANGED <<isRefreshing, tickPc, accountsToRefresh, batchIndex, tickLoaded, timerVars>>
  /\ UNCHANGED <<envVars, forceVars, reqVars, usageVars>>

\* lines 169-179: Promise.allSettled of the batch resolves; the next batch
\* starts, or the run ends and `finally` clears the flag
BatchSettled(t) ==
  /\ tickPc[t] = "batch"
  /\ UNCHANGED edgeVars
  /\ \A a \in BatchAt(accountsToRefresh[t], batchIndex[t]) : tickTask[t][a] # "inflight"
  /\ LET i == batchIndex[t] + batchSize
         batch == BatchAt(accountsToRefresh[t], i)
     IN IF i < Len(accountsToRefresh[t])
          THEN /\ batchIndex' = [batchIndex EXCEPT ![t] = i]
               /\ StartRefreshes(TickOwner(t), batch)
               /\ tickTask' = [tickTask EXCEPT ![t] = [a \in AccountUniverse |->
                     IF a \in Started(TickOwner(t), batch) THEN "inflight"
                     ELSE IF a \in batch THEN "locked" ELSE @[a]]]
               /\ UNCHANGED <<isRefreshing, tickPc, accountsToRefresh>>
          ELSE /\ Finally
               /\ tickPc' = [tickPc EXCEPT ![t] = "done"]
               /\ batchIndex' = [batchIndex EXCEPT ![t] = 0]
               /\ tickTask' = [tickTask EXCEPT ![t] = [a \in AccountUniverse |-> "none"]]
               /\ accountsToRefresh' = [accountsToRefresh EXCEPT ![t] = <<>>]
               /\ UNCHANGED <<accountLocks, inflight, taskCreds>>
  /\ UNCHANGED <<envVars, credVars, tickLoaded, timerVars, forceVars, reqVars, usageVars>>

(***************************************************************************)
(* AccountRefreshScheduler.startScheduler and stopScheduler, and the signal *)
(* handlers of the server.                                                  *)
(***************************************************************************)
Starts == 1..MaxStarts
Signals == {"SIGINT", "SIGTERM"}
NoTimer == 0

TimerInit ==
  /\ refreshInterval = NoTimer
  /\ timers = {}
  /\ timersMade = 0
  /\ startPc = [s \in Starts |-> "idle"]
  /\ startCheck = [s \in Starts |-> 0]
  /\ stopped = FALSE
  /\ stopCalls = 0
  /\ checkBy = [t \in Ticks |-> "none"]
  /\ sigPc = [sig \in Signals |-> "none"]
  /\ sigAt = [sig \in Signals |-> 0]

\* process.exit(0) has been called
Exited == \E sig \in Signals : sigPc[sig] = "exited"

\* clearInterval(this.refreshInterval) when there is one
ClearInterval == timers' = IF refreshInterval # NoTimer THEN timers \ {refreshInterval}
                           ELSE timers

\* lines 24-31: startScheduler clears the interval it knows of and calls the
\* check, which runs up to its first await
StartScheduler(s, t) ==
  /\ startPc[s] = "idle"
  /\ \A u \in Starts : u < s => startPc[u] # "idle"
  /\ CheckCalled(t)
  /\ ClearInterval
  /\ startPc' = [startPc EXCEPT ![s] = "awaiting"]
  /\ startCheck' = [startCheck EXCEPT ![s] = t]
  /\ checkBy' = [checkBy EXCEPT ![t] = "start"]
  /\ stopped' = FALSE
  /\ UNCHANGED <<refreshInterval, timersMade, stopCalls, sigPc, sigAt>>

\* lines 31-39: the awaited check has returned; setInterval
StartResumes(s) ==
  /\ startPc[s] = "awaiting"
  /\ tickPc[startCheck[s]] \in {"skipped", "done"}
  /\ timersMade' = timersMade + 1
  /\ refreshInterval' = timersMade + 1
  /\ timers' = timers \cup {timersMade + 1}
  /\ startPc' = [startPc EXCEPT ![s] = "done"]
  /\ UNCHANGED <<startCheck, stopped, stopCalls, checkBy, sigPc, sigAt>>
  /\ UNCHANGED <<checkVars, envVars, lockVars, credVars, forceVars, reqVars, usageVars>>
  /\ UNCHANGED edgeVars

\* lines 34-37: the interval `timer` fires and its callback calls the check
TimerFires(timer, t) ==
  /\ timer \in timers
  /\ CheckCalled(t)
  /\ checkBy' = [checkBy EXCEPT ![t] = "timer"]
  /\ UNCHANGED <<refreshInterval, timers, timersMade, startPc, startCheck, stopped,
                 stopCalls, sigPc, sigAt>>

\* lines 45-51: stopScheduler
StopScheduler ==
  /\ ClearInterval
  /\ refreshInterval' = NoTimer
  /\ stopped' = TRUE
  /\ stopCalls' = stopCalls + 1
  /\ UNCHANGED <<timersMade, startPc, startCheck, checkBy>>

\* a caller of the scheduler stops it
StopCalled ==
  /\ stopCalls = 0
  /\ StopScheduler
  /\ UNCHANGED <<sigPc, sigAt>>
  /\ UNCHANGED <<checkVars, envVars, lockVars, credVars, forceVars, reqVars, usageVars>>
  /\ UNCHANGED edgeVars

\* part_005 lines 643-656 and 663-676: the handler of a signal stops the
\* scheduler and calls saveRequestCounts, which it awaits
Signal(sig) ==
  /\ sigPc[sig] = "none"
  /\ StopScheduler
  /\ sigPc' = [sigPc EXCEPT ![sig] = "saving"]
  /\ sigAt' = [sigAt EXCEPT ![sig] = now]
  /\ UNCHANGED <<checkVars, envVars, lockVars, credVars, forceVars, reqVars, usageVars>>
  /\ UNCHANGED edgeVars

\* part_005 lines 654-660 and 674-680: saveRequestCounts has returned or
\* thrown; process.exit(0)
SaveSettles(sig) ==
  /\ sigPc[sig] = "saving"
  /\ sigPc' = [sigPc EXCEPT ![sig] = "exited"]
  /\ UNCHANGED <<refreshInterval, timers, timersMade, startPc, startCheck, stopped,
                 stopCalls, checkBy, sigAt>>
  /\ UNCHANGED <<checkVars, envVars, lockVars, credVars, forceVars, reqVars, usageVars>>
  /\ UNCHANGED edgeVars

(***************************************************************************)
(* AccountRefreshScheduler.forceRefreshAllAccounts.                        *)
(***************************************************************************)
\* lines 185-189: the call starts and loads the accounts
ForceStart ==
  /\ forcePc = "idle"
  /\ UNCHANGED edgeVars
  /\ forcePc' = "loop"
  /\ forceIdx' = 1
  /\ UNCHANGED <<successCount, failCount>>
  /\ UNCHANGED <<envVars, lockVars, credVars, schedVars, reqVars, usageVars>>

\* lines 201-228: the next account; its lock is taken and the refresh started,
\* or the account is skipped because the lock is held; after the last one the
\* call returns
ForceNext ==
  /\ forcePc = "loop"
  /\ UNCHANGED edgeVars
  /\ IF forceIdx > Len(AccountIds)
       THEN /\ forcePc' = "done"
            /\ UNCHANGED <<forceIdx, failCount, accountLocks, inflight, taskCreds>>
       ELSE LET a == AccountIds[forceIdx]
            IN IF AcquireAccountLock(a)
                 THEN /\ accountLocks' = [accountLocks EXCEPT ![a] = ForceOwner]
                      /\ inflight' = [inflight EXCEPT ![a] = @ + 1]
                      /\ taskCreds' = [taskCreds EXCEPT ![ForceOwner][a] = accounts[a]]
                      /\ forcePc' = "refreshing"
                      /\ UNCHANGED <<forceIdx, failCount>>
                 ELSE /\ failCount' = failCount + 1
                      /\ forceIdx' = forceIdx + 1
                      /\ UNCHANGED <<forcePc, accountLocks, inflight, taskCreds>>
  /\ UNCHANGED <<successCount>>
  /\ UNCHANGED <<envVars, credVars, schedVars, reqVars, usageVars>>

\* lines 215-224: the refresh of the current account settles; the lock is
\* released in `finally`
ForceRefreshDone(reply) ==
  /\ forcePc = "refreshing"
  /\ UNCHANGED edgeVars
  /\ RefreshSettles(ForceOwner, AccountIds[forceIdx], reply)
  /\ successCount' = IF reply.ok THEN successCount + 1 ELSE successCount
  /\ failCount' = IF reply.ok THEN failCount ELSE failCount + 1
  /\ forcePc' = "loop"
  /\ forceIdx' = forceIdx + 1
  /\ UNCHANGED <<envVars, schedVars, reqVars, usageVars>>

(***************************************************************************)
(* The clock.                                                              *)
(***************************************************************************)
Advance ==
  /\ advances < MaxAdvances
  /\ UNCHANGED edgeVars
  /\ \E d \in ClockSteps : now' = now + d * MsPerMinute
  /\ advances' = advances + 1
  /\ UNCHANGED <<AccountIds, lockVars, credVars, schedVars, forceVars, reqVars, usageVars>>

(***************************************************************************)
(* The account pool and the request router (QwenAPI).                      *)
(***************************************************************************)
\* the upstream responses a call can get: status and the phrase in the body
Responses ==
  {[status |-> 200, phrase |-> "none"],
   [status |-> 401, phrase |-> "invalid token"],
   [status |-> 403, phrase |-> "invalid token"],
   [status |-> 429, phrase |-> "none"],
   [status |-> 429, phrase |-> "quota"],
   [status |-> 400, phrase |-> "quota"],
   [status |-> 500, phrase |-> "none"],
   [status |-> 400, phrase |-> "none"],
   [status |-> 404, phrase |-> "none"]}

NoResponse == [status |-> 0, phrase |-> "none"]

\* mutant: every 4xx that is not an auth failure counts as quota exhaustion
ClassifyAll4xxQuota(resp) ==
  IF resp.status \in 200..299 THEN "success"
  ELSE IF resp.status \in {401, 403} /\ resp.phrase = "invalid token" THEN "auth"
  ELSE IF resp.status \in 400..499 \/ resp.phrase = "quota" THEN "quota"
  ELSE IF resp.status \in 500..599 THEN "server"
  ELSE "client"
\* the outcome classes of the attempt loop, tested in this order
Classify(resp) ==
  IF resp.status \in 200..299 THEN "success"
  ELSE IF resp.status \in {401, 403} /\ resp.phrase = "invalid token" THEN "auth"
  ELSE IF resp.status = 429 \/ resp.phrase = "quota" THEN "quota"
  ELSE IF resp.status \in 500..599 THEN "server"
  ELSE "client"

UtcDay(t) == t \div MsPerDay
\* mutant: the mark lasts 24 hours instead of until the day ends
NextUtcMidnightPlusDay(t) == t + MsPerDay
NextUtcMidnight(t) == (UtcDay(t) + 1) * MsPerDay

\* mutant: the auth-error counter is not looked at
EligibleIgnoringAuthErrors(a) ==
  /\ a \in Accounts
  /\ ~(quotaUntil[a] > now)
  /\ ~authDead[a]
  /\ accountLocks[a] = NoOwner
\* pick(): may account a be returned now
Eligible(a) ==
  /\ a \in Accounts
  /\ ~(quotaUntil[a] > now)
  /\ authErrors[a] < AuthErrorThreshold
  /\ ~authDead[a]
  /\ accountLocks[a] = NoOwner

EligibleAccounts == {a \in AccountUniverse : Eligible(a)}

\* position of account a in the configured order
IndexOf(a) == CHOOSE i \in 1..Len(AccountIds) : AccountIds[i] = a

\* pick(): the eligible account used least recently, the first of them in the
\* configured order when several tie
PickAccount ==
  CHOOSE a \in EligibleAccounts :
    \A b \in EligibleAccounts :
      \/ lastUsed[a] < lastUsed[b]
      \/ lastUsed[a] = lastUsed[b] /\ IndexOf(a) <= IndexOf(b)

\* mutant: only a token that has already expired is refreshed before use
NeedsRefreshNoSkew(a) == accounts[a].expiry_date <= now
\* step 2 of the attempt loop: refresh before use
NeedsRefresh(a) == accounts[a].expiry_date <= now + SkewSeconds * MsPerSecond

\* mutant: the request limit ignores the number of eligible accounts
AttemptsMaxFixed == MaxAttempts + 1
\* attempts_max of a request that starts now
AttemptsMax == Min(MaxAttempts, Cardinality(EligibleAccounts))

\* mutant: the request is counted under the local date of a zone one hour
\* behind UTC
IncrRequestLocalDate(a) ==
  requestCounts' = [requestCounts EXCEPT ![a][UtcDay(now - 60 * MsPerMinute)] = @ + 1]
\* incr_request(account, kind) on the current UTC date
IncrRequest(a) ==
  requestCounts' = [requestCounts EXCEPT ![a][UtcDay(now)] = @ + 1]

\* the client request r arrives
ReqStart(r) ==
  /\ reqPc[r] = "idle"
  /\ UNCHANGED edgeVars
  /\ \A q \in Requests : q < r => reqPc[q] # "idle"
  /\ reqPc' = [reqPc EXCEPT ![r] = "selecting"]
  /\ attemptsMax' = [attemptsMax EXCEPT ![r] = AttemptsMax]
  /\ reqEvent' = [reqEvent EXCEPT ![r] = "started"]
  /\ UNCHANGED <<reqAccount, attempts, retried, reqResult, lastResponse, served>>
  /\ UNCHANGED <<envVars, lockVars, credVars, schedVars, forceVars, usageVars>>

\* the request is answered
Finish(r, result, event) ==
  /\ reqPc' = [reqPc EXCEPT ![r] = "done"]
  /\ reqResult' = [reqResult EXCEPT ![r] = result]
  /\ reqEvent' = [reqEvent EXCEPT ![r] = event]

\* steps 1-3 of an attempt: pick an account, refresh its token when it is about
\* to expire, otherwise send; with no attempt left the loop is exhausted, and a
\* pick that fails with NoEligibleAccount ends it as well
ReqPick(r) ==
  /\ reqPc[r] = "selecting"
  /\ UNCHANGED edgeVars
  /\ IF attempts[r] >= attemptsMax[r] \/ EligibleAccounts = {}
       THEN /\ Finish(r, "UpstreamUnavailable",
                      IF attempts[r] >= attemptsMax[r] THEN "exhausted"
                      ELSE "NoEligibleAccount")
            /\ UNCHANGED <<reqAccount, attempts, retried, lockVars, lastUsed>>
       ELSE LET a == PickAccount IN
            /\ reqAccount' = [reqAccount EXCEPT ![r] = a]
            /\ lastUsed' = [lastUsed EXCEPT ![a] = now]
            /\ attempts' = [attempts EXCEPT ![r] = @ + 1]
            /\ retried' = [retried EXCEPT ![r] = FALSE]
            /\ reqEvent' = [reqEvent EXCEPT ![r] = "picked"]
            /\ IF NeedsRefresh(a)
                 THEN /\ StartRefreshes(ReqOwner(r), {a})
                      /\ reqPc' = [reqPc EXCEPT ![r] = "refreshing"]
                 ELSE /\ reqPc' = [reqPc EXCEPT ![r] = "calling"]
                      /\ UNCHANGED lockVars
            /\ UNCHANGED reqResult
  /\ UNCHANGED <<attemptsMax, lastResponse, served, quotaUntil, requestCounts>>
  /\ UNCHANGED <<envVars, credVars, schedVars, forceVars>>

\* the refresh a request triggered settles: the call is sent with the new
\* token, or the loop goes on to the next attempt
ReqRefreshDone(r, reply) ==
  /\ reqPc[r] = "refreshing"
  /\ UNCHANGED edgeVars
  /\ RefreshSettles(ReqOwner(r), reqAccount[r], reply)
  /\ reqPc' = [reqPc EXCEPT ![r] = IF reply.ok THEN "calling" ELSE "selecting"]
  /\ reqEvent' = [reqEvent EXCEPT ![r] =
        IF reply.ok THEN "refreshed" ELSE "refresh_" \o reply.error]
  /\ UNCHANGED <<reqAccount, attempts, attemptsMax, retried, reqResult, lastResponse, served>>
  /\ UNCHANGED <<envVars, schedVars, forceVars, usageVars>>

\* step 4: the upstream call returns and is classified
ReqResponse(r, resp) ==
  /\ reqPc[r] = "calling"
  /\ UNCHANGED edgeVars
  /\ LET a == reqAccount[r]
         class == Classify(resp)
     IN CASE class = "success" ->
               /\ IncrRequest(a)
               /\ Finish(r, "ok", "success")
               /\ served' = [served EXCEPT ![r] = [account |-> a, at |-> now]]
               /\ UNCHANGED <<quotaUntil, authErrors, retried, lockVars>>
          [] class = "auth" ->
               /\ authErrors' = [authErrors EXCEPT ![a] = @ + 1]
               /\ IF ~retried[r] /\ Started(ReqOwner(r), {a}) # {}
                    THEN /\ StartRefreshes(ReqOwner(r), {a})
                         /\ retried' = [retried EXCEPT ![r] = TRUE]
                         /\ reqPc' = [reqPc EXCEPT ![r] = "refreshing"]
                    ELSE /\ reqPc' = [reqPc EXCEPT ![r] = "selecting"]
                         /\ UNCHANGED <<retried, lockVars>>
               /\ reqEvent' = [reqEvent EXCEPT ![r] = "auth"]
               /\ UNCHANGED <<quotaUntil, requestCounts, reqResult, served>>
          [] class = "quota" ->
               /\ quotaUntil' = [quotaUntil EXCEPT ![a] = NextUtcMidnight(now)]
               /\ reqPc' = [reqPc EXCEPT ![r] = "selecting"]
               /\ reqEvent' = [reqEvent EXCEPT ![r] = "quota"]
               /\ UNCHANGED <<requestCounts, authErrors, retried, reqResult, served, lockVars>>
          [] class = "server" ->
               /\ reqPc' = [reqPc EXCEPT ![r] = "selecting"]
               /\ reqEvent' = [reqEvent EXCEPT ![r] = "server"]
               /\ UNCHANGED <<quotaUntil, requestCounts, authErrors, retried, reqResult, served,
                              lockVars>>
          [] class = "client" ->
               /\ Finish(r, "client_error", "client")
               /\ UNCHANGED <<quotaUntil, requestCounts, authErrors, retried, served, lockVars>>
  /\ lastResponse' = [lastResponse EXCEPT ![r] = resp]
  /\ UNCHANGED <<reqAccount, attempts, attemptsMax, lastUsed>>
  /\ UNCHANGED <<accounts, authDead, lastRefresh>>
  /\ UNCHANGED <<envVars, schedVars, forceVars>>

(***************************************************************************)
(* The SSE normalizer: SSEChunkHandler, a Transform stream.  A string is a *)
(* sequence of one-character strings.                                      *)
(***************************************************************************)
LF == "\n"
DataPrefix == <<"d", "a", "t", "a", ":">>
EventPrefix == <<"e", "v", "e", "n", "t", ":">>

\* the lines an upstream body is made of: a data line, an event line, the
\* blank line that ends a record, an id line, a comment line
SseLines ==
  {DataPrefix \o <<"x">>, EventPrefix \o <<"e">>, <<>>, <<"i", "d", ":", "1">>, <<":", "c">>}

RECURSIVE JoinLines(_)
\* the lines of ls, each followed by a newline
JoinLines(ls) == IF ls = <<>> THEN <<>> ELSE Head(ls) \o <<LF>> \o JoinLines(Tail(ls))

\* the upstream bodies: up to MaxLines lines, the last one with or without its
\* newline
SseBodies ==
  LET texts == UNION {[1..n -> SseLines] : n \in 0..MaxLines}
  IN {JoinLines(ls) : ls \in texts}
       \cup {SubSeq(JoinLines(ls), 1, Len(JoinLines(ls)) - 1) : ls \in texts \ {<<>>}}

RECURSIVE Concat(_)
\* the concatenation of a sequence of strings
Concat(ss) == IF ss = <<>> THEN <<>> ELSE Head(ss) \o Concat(Tail(ss))

RECURSIVE Split(_)
\* String.prototype.split('\n'): the pieces between the newlines, at least one
Split(str) ==
  IF \A i \in 1..Len(str) : str[i] # LF THEN <<str>>
  ELSE LET k == CHOOSE i \in 1..Len(str) :
                  str[i] = LF /\ \A j \in 1..(i - 1) : str[j] # LF
       IN <<SubSeq(str, 1, k - 1)>> \o Split(SubSeq(str, k + 1, Len(str)))

\* String.prototype.startsWith
StartsWith(str, prefix) ==
  Len(str) >= Len(prefix) /\ SubSeq(str, 1, Len(prefix)) = prefix

\* String.prototype.endsWith('\n')
EndsWithLF(str) == str # <<>> /\ str[Len(str)] = LF

\* lines 52-59: formattedLine
FormatLine(line) ==
  IF StartsWith(line, DataPrefix) /\ ~EndsWithLF(line) THEN line \o <<LF>>
  ELSE IF StartsWith(line, EventPrefix) /\ ~EndsWithLF(line) THEN line \o <<LF>>
  ELSE IF line = <<>> /\ ~EndsWithLF(line) THEN line \o <<LF>>
  ELSE line

\* lines 44-47: the complete lines of the buffer, and what stays in it
CompleteLines(buf) == SubSeq(Split(buf), 1, Len(Split(buf)) - 1)
Remainder(buf) == Split(buf)[Len(Split(buf))]

\* lines 35-69: _transform(chunk) for the next n bytes of the body
SseTransform(n) ==
  /\ ~sseEnded
  /\ n \in 1..(Len(sseText) - ssePos)
  /\ LET chunk == SubSeq(sseText, ssePos + 1, ssePos + n)
         buf == sseBuffer \o chunk
         lines == CompleteLines(buf)
     IN /\ sseBuffer' = Remainder(buf)
        /\ sseEmitted' = sseEmitted \o [i \in 1..Len(lines) |-> FormatLine(lines[i])]
  /\ ssePos' = ssePos + n
  /\ UNCHANGED <<sseText, sseEnded>>
  /\ UNCHANGED <<coreVars, streamVars, keyVars, siteVars>>

\* lines 71-78: _flush, when the upstream body has ended
SseFlush ==
  /\ ~sseEnded
  /\ ssePos = Len(sseText)
  /\ sseEmitted' = IF sseBuffer # <<>> THEN Append(sseEmitted, sseBuffer) ELSE sseEmitted
  /\ sseBuffer' = <<>>
  /\ sseEnded' = TRUE
  /\ UNCHANGED <<sseText, ssePos>>
  /\ UNCHANGED <<coreVars, streamVars, keyVars, siteVars>>

\* a handler that has just been constructed for the body `text` (lines 29-33)
SseInit(text) ==
  /\ sseText = text
  /\ ssePos = 0
  /\ sseBuffer = <<>>
  /\ sseEmitted = <<>>
  /\ sseEnded = FALSE

(***************************************************************************)
(* The streaming chat completion handler: handleStreamingChatCompletion.   *)
(***************************************************************************)
\* ErrorFormatter.openAIApiError(message, type, code) and openAIAuthError()
OpenAIApiError(type, code) == [status |-> code, type |-> type]
OpenAIAuthError == OpenAIApiError("authentication_error", 401)

\* what a client can find in the body of a streaming response: a chunk of the
\* stream, or the JSON body of an error
StreamChunks == {[chunk |-> line \o <<LF>>] : line \in SseLines}

\* the messages of the error streamChatCompletions can throw (lines 229, 239)
CallErrors == {"Not authenticated", "other"}

\* the state when the request arrives
StreamInit ==
  /\ strPc = "idle"
  /\ stream = "none"
  /\ resHeadersSent = FALSE
  /\ resBody = <<>>
  /\ resEnded = FALSE
  /\ reqClosed = FALSE

\* the number of chunks of the stream written to res
ChunksSent == Len(SelectSeq(resBody, LAMBDA w : w \in StreamChunks))

\* lines 170-179: the headers are set and streamChatCompletions is called
StreamHandlerStart ==
  /\ strPc = "idle"
  /\ strPc' = "calling"
  /\ UNCHANGED <<stream, resHeadersSent, resBody, resEnded, reqClosed>>
  /\ UNCHANGED <<coreVars, sseVars, keyVars, siteVars>>

\* line 179: streamChatCompletions returns the stream; line 194: logApiCall
StreamReturned ==
  /\ strPc = "calling"
  /\ strPc' = "logging"
  /\ stream' = "flowing"
  /\ UNCHANGED <<resHeadersSent, resBody, resEnded, reqClosed>>
  /\ UNCHANGED <<coreVars, sseVars, keyVars, siteVars>>

\* lines 214-244: streamChatCompletions throws; the catch block answers
StreamCallFails(message) ==
  /\ strPc = "calling"
  /\ strPc' = "failed"
  /\ LET error == IF message = "Not authenticated" THEN OpenAIAuthError
                  ELSE OpenAIApiError("api_error", 500)
     IN IF ~resHeadersSent
        THEN /\ resBody' = Append(resBody, error)
             /\ resHeadersSent' = TRUE
             /\ resEnded' = TRUE
        ELSE UNCHANGED <<resBody, resHeadersSent, resEnded>>
  /\ UNCHANGED <<stream, reqClosed>>
  /\ UNCHANGED <<coreVars, sseVars, keyVars, siteVars>>

\* lines 196-212: after logApiCall, stream.pipe(res) and the 'error' and
\* 'close' listeners are registered
StreamPiped ==
  /\ strPc = "logging"
  /\ strPc' = "piping"
  /\ UNCHANGED <<stream, resHeadersSent, resBody, resEnded, reqClosed>>
  /\ UNCHANGED <<coreVars, sseVars, keyVars, siteVars>>

\* line 197: the pipe writes a chunk of the stream to res
StreamData(chunk) ==
  /\ strPc = "piping"
  /\ stream = "flowing"
  /\ ~reqClosed
  /\ ChunksSent < MaxChunks
  /\ resBody' = Append(resBody, chunk)
  /\ resHeadersSent' = TRUE
  /\ UNCHANGED <<strPc, stream, resEnded, reqClosed>>
  /\ UNCHANGED <<coreVars, sseVars, keyVars, siteVars>>

\* line 197: the stream ends and the pipe ends res
StreamEnds ==
  /\ strPc = "piping"
  /\ stream = "flowing"
  /\ ~reqClosed
  /\ stream' = "ended"
  /\ resHeadersSent' = TRUE
  /\ resEnded' = TRUE
  /\ UNCHANGED <<strPc, resBody, reqClosed>>
  /\ UNCHANGED <<coreVars, sseVars, keyVars, siteVars>>

\* lines 200-207: stream.on('error')
StreamError ==
  /\ strPc = "piping"
  /\ stream = "flowing"
  /\ stream' = "errored"
  /\ IF ~resHeadersSent
     THEN /\ resBody' = Append(resBody, OpenAIApiError("streaming_error", 500))
          /\ resHeadersSent' = TRUE
     ELSE UNCHANGED <<resBody, resHeadersSent>>
  /\ resEnded' = TRUE
  /\ UNCHANGED <<strPc, reqClosed>>
  /\ UNCHANGED <<coreVars, sseVars, keyVars, siteVars>>

\* the client disconnects and req emits 'close'; lines 210-212: the listener,
\* if it has been registered by then, destroys the stream
ClientClose ==
  /\ strPc # "idle"
  /\ ~reqClosed
  /\ reqClosed' = TRUE
  /\ stream' = IF strPc = "piping" /\ stream = "flowing" THEN "destroyed" ELSE stream
  /\ UNCHANGED <<strPc, resHeadersSent, resBody, resEnded>>
  /\ UNCHANGED <<coreVars, sseVars, keyVars, siteVars>>


(***************************************************************************)
(* The API-key store (ApiKeyManager) and the validator (ApiKeyMiddleware). *)
(***************************************************************************)
\* JavaScript null
Null == [null |-> TRUE]
\* a date that is null
NoDate == 0

\* line 56: the prefix of every key; line 57: the number of hex digits after it
KeyPrefixText == <<"s", "k", "-", "p", "r", "o", "j", "-">>
HexLength == 48
\* auth.js line 228: the shortest key the validator looks up
MinKeyLength == 20
\* lines 15-17: hashConfig; line 77: the first part of a stored hash
Iterations == 260000
KeyLength == 64
Digest == "sha256"
HashTag == "pbkdf2_sha256"
\* auth.js lines 191-192: the defaults of a rate limiter
DefaultWindowMs == 60000
DefaultMax == 100

KeyIds == 1..MaxKeys

\* line 122: the permissions of a key that is created without any
DefaultPermissions == {"chat.completions", "models.list"}
\* the permission sets keys are created with
PermissionSets ==
  {DefaultPermissions, {"models.list"}, {"chat.completions"},
   {"chat.completions.create", "models.read"}, {"full_access"}}
\* the endpoints behind the validator
Endpoints == {"/v1/chat/completions", "/v1/models"}
\* the rate limit of a key that has one
RateLimits == {[maxRequests |-> 2, windowMs |-> 60000]}
\* the steps (ms) of the clock between requests that present a key
KeyClockSteps == {30000}

\* lines 55-60: generateApiKey, for the n-th draw of randomBytes(24)
GenerateApiKey(n) ==
  KeyPrefixText \o [i \in 1..HexLength |-> IF i = HexLength THEN <<"1", "2", "3", "4">>[n] ELSE "0"]

\* lines 63-65: generateKeyId, for the n-th draw of randomBytes(8)
GenerateKeyId(n) == n

\* crypto.pbkdf2: the derived key, a value that stands for the digest of its
\* arguments and is equal only for equal arguments
Pbkdf2(apiKey, salt, iterations, keyLength, digest) ==
  <<"derived", apiKey, salt, iterations, keyLength, digest>>

\* lines 68-82: hashApiKey, for the n-th draw of the salt; the four parts of
\* the string joined by '$'
HashApiKey(apiKey, n) ==
  <<HashTag, Iterations, <<"salt", n>>,
    Pbkdf2(apiKey, <<"salt", n>>, Iterations, KeyLength, Digest)>>

\* a verifier that accepts every key
VerifyAnyApiKey(apiKey, storedHash) == TRUE

\* lines 85-114: verifyApiKey
VerifyApiKey(apiKey, storedHash) ==
  IF Len(storedHash) # 4 \/ storedHash[1] # HashTag THEN FALSE
  ELSE Pbkdf2(apiKey, storedHash[3], storedHash[2], KeyLength, Digest) = storedHash[4]

\* a key record that keeps the key itself where the mask should be
KeyDataUnmasked(n, permissions, rateLimit, at) ==
  LET apiKey == GenerateApiKey(n)
  IN [id |-> GenerateKeyId(n),
      keyHash |-> HashApiKey(apiKey, n),
      keyPrefix |-> SubSeq(apiKey, 1, 8),
      keySuffix |-> SubSeq(apiKey, Len(apiKey) - 3, Len(apiKey)),
      maskedKey |-> apiKey,
      status |-> "active",
      permissions |-> permissions,
      rateLimit |-> rateLimit,
      createdAt |-> at,
      lastUsed |-> NoDate,
      usageCount |-> 0]

\* lines 126-145: keyData of the n-th key that is created
KeyData(n, permissions, rateLimit, at) ==
  LET apiKey == GenerateApiKey(n)
  IN [id |-> GenerateKeyId(n),
      keyHash |-> HashApiKey(apiKey, n),
      keyPrefix |-> SubSeq(apiKey, 1, 8),
      keySuffix |-> SubSeq(apiKey, Len(apiKey) - 3, Len(apiKey)),
      maskedKey |-> SubSeq(apiKey, 1, 8) \o <<".", ".", ".">>
                      \o SubSeq(apiKey, Len(apiKey) - 3, Len(apiKey)),
      status |-> "active",
      permissions |-> permissions,
      rateLimit |-> rateLimit,
      createdAt |-> at,
      lastUsed |-> NoDate,
      usageCount |-> 0]

\* lines 156-160: what createKey returns
CreateKeyResult(n, keyData) ==
  [f \in (DOMAIN keyData \ {"keyHash"}) \cup {"apiKey"} |->
     IF f = "apiKey" THEN GenerateApiKey(n) ELSE keyData[f]]

\* lines 148-150: keysData.keys[keyId] = keyData
WithKey(keys, keyData) ==
  [k \in DOMAIN keys \cup {keyData.id} |-> IF k = keyData.id THEN keyData ELSE keys[k]]

\* a validateKey that does not look at the status
ValidateKeyAnyStatus(keys, apiKey) ==
  IF apiKey = <<>> \/ ~StartsWith(apiKey, KeyPrefixText) THEN Null
  ELSE LET matches == {k \in DOMAIN keys : VerifyApiKey(apiKey, keys[k].keyHash)}
       IN IF matches = {} THEN Null
          ELSE LET k == CHOOSE m \in matches : \A j \in matches : m <= j
               IN [id |-> k,
                   permissions |-> keys[k].permissions,
                   rateLimit |-> keys[k].rateLimit]

\* lines 168-196: validateKey; the keys are tried in the order they were added
ValidateKey(keys, apiKey) ==
  IF apiKey = <<>> \/ ~StartsWith(apiKey, KeyPrefixText) THEN Null
  ELSE LET matches == {k \in DOMAIN keys :
                         keys[k].status = "active" /\ VerifyApiKey(apiKey, keys[k].keyHash)}
       IN IF matches = {} THEN Null
          ELSE LET k == CHOOSE m \in matches : \A j \in matches : m <= j
               IN [id |-> k,
                   permissions |-> keys[k].permissions,
                   rateLimit |-> keys[k].rateLimit]

\* lines 201-206: updateLastUsed, the keys it writes
LastUsedUpdated(keys, keyId, at) ==
  IF keyId \in DOMAIN keys
  THEN [keys EXCEPT ![keyId].lastUsed = at, ![keyId].usageCount = @ + 1]
  ELSE keys

\* lines 217-232: listKeys
ListKeys(keys) ==
  {[f \in {"id", "maskedKey", "status", "permissions", "rateLimit", "createdAt",
           "lastUsed", "usageCount"} |-> keys[k][f]] : k \in DOMAIN keys}

\* lines 248-257: updateKey, the record it writes
KeyUpdated(keyData, updates, at) ==
  [f \in DOMAIN keyData \cup {"updatedAt"} |->
     IF f = "updatedAt" THEN at
     ELSE IF f \in DOMAIN updates THEN updates[f]
     ELSE keyData[f]]

\* lines 275-276: delete keysData.keys[keyId]
WithoutKey(keys, keyId) == [k \in DOMAIN keys \ {keyId} |-> keys[k]]

\* line 379: the number totalResponseTime / totalRequests
Quotient(n, d) == [num |-> n, den |-> d]
\* is the number q the quotient n / d
IsQuotient(q, n, d) == q.num * d = n * q.den

\* lines 325-344: initializeKeyStats
InitializeKeyStats(stats, keyId) ==
  IF keyId \in DOMAIN stats.keyStats THEN stats
  ELSE [stats EXCEPT !.keyStats =
          [k \in DOMAIN stats.keyStats \cup {keyId} |->
             IF k = keyId
             THEN [totalRequests |-> 0, totalErrors |-> 0, totalResponseTime |-> 0,
                   averageResponseTime |-> Quotient(0, 1), firstUsed |-> NoDate,
                   lastUsed |-> NoDate]
             ELSE stats.keyStats[k]]]

\* lines 347-385: updateUsageStats.  For a key without statistics line 362
\* leaves statsData.keyStats undefined, line 370 throws, and only what
\* initializeKeyStats wrote stays.
UpdateUsageStats(stats, keyId, responseTime, isError, at) ==
  IF keyId \notin DOMAIN stats.keyStats THEN InitializeKeyStats(stats, keyId)
  ELSE LET today == UtcDay(at)
           day == IF today \in DOMAIN stats.daily THEN stats.daily[today] ELSE <<>>
           count == IF keyId \in DOMAIN day THEN day[keyId] ELSE 0
           old == stats.keyStats[keyId]
       IN [daily |-> [d \in DOMAIN stats.daily \cup {today} |->
                        IF d = today
                        THEN [k \in DOMAIN day \cup {keyId} |->
                                IF k = keyId THEN count + 1 ELSE day[k]]
                        ELSE stats.daily[d]],
           keyStats |-> [stats.keyStats EXCEPT ![keyId] =
                           [totalRequests |-> old.totalRequests + 1,
                            totalErrors |-> old.totalErrors + (IF isError THEN 1 ELSE 0),
                            totalResponseTime |-> old.totalResponseTime + responseTime,
                            averageResponseTime |->
                              IF responseTime > 0
                              THEN Quotient(old.totalResponseTime + responseTime,
                                            old.totalRequests + 1)
                              ELSE old.averageResponseTime,
                            firstUsed |-> IF old.firstUsed = NoDate THEN at ELSE old.firstUsed,
                            lastUsed |-> at]]]

\* lines 388-404: cleanupKeyStats
CleanupKeyStats(stats, keyId) ==
  [daily |-> [d \in DOMAIN stats.daily |->
                [k \in DOMAIN stats.daily[d] \ {keyId} |-> stats.daily[d][k]]],
   keyStats |-> [k \in DOMAIN stats.keyStats \ {keyId} |-> stats.keyStats[k]]]

\* auth.js lines 311-314: permissionMap
PermissionMap(endpoint) ==
  IF endpoint = "/v1/chat/completions" THEN {"chat.completions", "chat.completions.create"}
  ELSE IF endpoint = "/v1/models" THEN {"models.list", "models.read"}
  ELSE {}

\* a permission check that lets every key through
CheckPermissionsAlways(endpoint, permissions) == TRUE

\* auth.js lines 305-336: checkPermissions
CheckPermissions(endpoint, permissions) ==
  IF PermissionMap(endpoint) = {} THEN TRUE
  ELSE IF "*" \in permissions \/ "full_access" \in permissions THEN TRUE
  ELSE PermissionMap(endpoint) \cap permissions # {}

\* auth.js lines 185-204: createKeyRateLimit, the limiter of express-rate-limit
\* before its first request
CreateKeyRateLimit(rateConfig) ==
  [windowMs |-> IF rateConfig.windowMs = 0 THEN DefaultWindowMs ELSE rateConfig.windowMs,
   max |-> IF rateConfig.maxRequests = 0 THEN DefaultMax ELSE rateConfig.maxRequests,
   hits |-> 0,
   resetTime |-> 0]

\* express-rate-limit: the limiter after a request at the time `at`; the
\* count starts again when the window that began with its first request ends
LimiterHit(limiter, at) ==
  IF at >= limiter.resetTime
  THEN [limiter EXCEPT !.hits = 1, !.resetTime = at + limiter.windowMs]
  ELSE [limiter EXCEPT !.hits = @ + 1]

\* auth.js lines 339-352: getOrCreateRateLimiter, the limiters afterwards
WithRateLimiter(limiters, keyId, rateConfig) ==
  IF keyId \in DOMAIN limiters THEN limiters
  ELSE [k \in DOMAIN limiters \cup {keyId} |->
          IF k = keyId THEN CreateKeyRateLimit(rateConfig) ELSE limiters[k]]

\* a request the validator has not seen yet
NoKeyRequest ==
  [pc |-> "idle", apiKey |-> <<>>, endpoint |-> "", keyId |-> 0, snap |-> <<>>,
   status |-> 0, type |-> "", at |-> 0]

\* no dashboard operation in progress
NoAdminOp == [pc |-> "idle", keyId |-> 0, data |-> <<>>, snap |-> <<>>]

\* lines 24-47: the two files as initializeStorage writes them, no limiter,
\* no request
KeysInit ==
  /\ keysFile = <<>>
  /\ statsFile = [daily |-> <<>>, keyStats |-> <<>>]
  /\ keyRateLimiters = <<>>
  /\ created = <<>>
  /\ deleted = {}
  /\ statusSet = <<>>
  /\ keyReq = [r \in KeyRequests |-> NoKeyRequest]
  /\ adm = NoAdminOp

\* nobody is between the read and the write of a file
Quiet ==
  /\ adm.pc = "idle"
  /\ \A r \in KeyRequests : keyReq[r].pc \in {"idle", "rejected", "forwarded", "ended"}

\* the answer of the validator that ends a request
Rejected(req, status, type) ==
  [req EXCEPT !.pc = "rejected", !.status = status, !.type = type, !.snap = <<>>]

\* auth.js lines 208-239: the request arrives; the header and the format of
\* the key are checked and validateKey is called
KeyReqArrive(r, authHeader, endpoint) ==
  /\ keyReq[r].pc = "idle"
  /\ \A q \in KeyRequests : q < r => keyReq[q].pc # "idle"
  /\ LET bearer == authHeader # Null /\ authHeader.scheme = "Bearer"
         apiKey == IF bearer THEN authHeader.credentials ELSE <<>>
         req == [keyReq[r] EXCEPT !.apiKey = apiKey, !.endpoint = endpoint, !.at = now]
     IN keyReq' = [keyReq EXCEPT ![r] =
          IF ~bearer THEN Rejected(req, 401, "invalid_request_error")
          ELSE IF ~StartsWith(apiKey, KeyPrefixText) \/ Len(apiKey) < MinKeyLength
            THEN Rejected(req, 401, "invalid_request_error")
          ELSE [req EXCEPT !.pc = "validating"]]
  /\ UNCHANGED <<keysFile, statsFile, keyRateLimiters, created, deleted, statusSet, adm>>
  /\ UNCHANGED <<coreVars, sseVars, streamVars, siteVars>>

\* auth.js lines 239-289: validateKey has read the key file; the permission
\* check and the rate limiter follow, and updateLastUsed is called
KeyReqValidated(r) ==
  /\ keyReq[r].pc = "validating"
  /\ LET req == keyReq[r]
         keyData == ValidateKey(keysFile, req.apiKey)
         permitted == keyData # Null /\ CheckPermissions(req.endpoint, keyData.permissions)
         limited == permitted /\ keyData.rateLimit # Null
         limiters == IF limited
                     THEN WithRateLimiter(keyRateLimiters, keyData.id, keyData.rateLimit)
                     ELSE keyRateLimiters
         limiter == LimiterHit(limiters[keyData.id], now)
     IN /\ keyRateLimiters' = IF limited THEN [limiters EXCEPT ![keyData.id] = limiter]
                              ELSE keyRateLimiters
        /\ keyReq' = [keyReq EXCEPT ![r] =
             IF keyData = Null THEN Rejected(req, 401, "invalid_request_error")
             ELSE IF ~permitted
               THEN Rejected([req EXCEPT !.keyId = keyData.id], 403, "permission_error")
             ELSE IF limited /\ limiter.hits > limiter.max
               THEN Rejected([req EXCEPT !.keyId = keyData.id], 429, "rate_limit_error")
             ELSE [req EXCEPT !.keyId = keyData.id, !.pc = "updating", !.at = now]]
  /\ UNCHANGED <<keysFile, statsFile, created, deleted, statusSet, adm>>
  /\ UNCHANGED <<coreVars, sseVars, streamVars, siteVars>>

\* line 201: updateLastUsed has read the key file
KeyReqRead(r) ==
  /\ keyReq[r].pc = "updating"
  /\ keyReq' = [keyReq EXCEPT ![r].pc = "read", ![r].snap = keysFile]
  /\ UNCHANGED <<keysFile, statsFile, keyRateLimiters, created, deleted, statusSet, adm>>
  /\ UNCHANGED <<coreVars, sseVars, streamVars, siteVars>>

\* lines 203-206: updateLastUsed writes the key file it read, with the use added
KeyReqWrite(r) ==
  /\ keyReq[r].pc = "read"
  /\ IF keyReq[r].keyId \in DOMAIN keyReq[r].snap
     THEN /\ keysFile' = LastUsedUpdated(keyReq[r].snap, keyReq[r].keyId, now)
          /\ keyReq' = [keyReq EXCEPT ![r].pc = "written", ![r].snap = <<>>]
     ELSE /\ keyReq' = [keyReq EXCEPT ![r].pc = "forwarded", ![r].snap = <<>>]
          /\ UNCHANGED keysFile
  /\ UNCHANGED <<statsFile, keyRateLimiters, created, deleted, statusSet, adm>>
  /\ UNCHANGED <<coreVars, sseVars, streamVars, siteVars>>

\* line 209 and auth.js lines 363-381: updateUsageStats, then next(): the
\* request goes on to the handler
KeyReqForward(r) ==
  /\ keyReq[r].pc = "written"
  /\ statsFile' = UpdateUsageStats(statsFile, keyReq[r].keyId, 0, FALSE, now)
  /\ keyReq' = [keyReq EXCEPT ![r].pc = "forwarded", ![r].status = 200]
  /\ UNCHANGED <<keysFile, keyRateLimiters, created, deleted, statusSet, adm>>
  /\ UNCHANGED <<coreVars, sseVars, streamVars, siteVars>>

\* auth.js lines 366-379: res.end of a forwarded request
KeyReqEnd(r, isError) ==
  /\ keyReq[r].pc = "forwarded"
  /\ statsFile' = UpdateUsageStats(statsFile, keyReq[r].keyId, now - keyReq[r].at,
                                   isError, now)
  /\ keyReq' = [keyReq EXCEPT ![r].pc = "ended"]
  /\ UNCHANGED <<keysFile, keyRateLimiters, created, deleted, statusSet, adm>>
  /\ UNCHANGED <<coreVars, sseVars, streamVars, siteVars>>

\* lines 117-148: createKey has made the key and read the key file
CreateKeyRead(permissions, rateLimit) ==
  /\ adm.pc = "idle"
  /\ Cardinality(DOMAIN created) < MaxKeys
  /\ LET n == Cardinality(DOMAIN created) + 1
     IN adm' = [pc |-> "createRead", keyId |-> GenerateKeyId(n),
                data |-> KeyData(n, permissions, rateLimit, now), snap |-> keysFile]
  /\ UNCHANGED <<keysFile, statsFile, keyRateLimiters, created, deleted, statusSet, keyReq>>
  /\ UNCHANGED <<coreVars, sseVars, streamVars, siteVars>>

\* lines 149-150: createKey writes the key file it read, with the key added
CreateKeyWrite ==
  /\ adm.pc = "createRead"
  /\ keysFile' = WithKey(adm.snap, adm.data)
  /\ adm' = [adm EXCEPT !.pc = "createWritten", !.snap = <<>>]
  /\ UNCHANGED <<statsFile, keyRateLimiters, created, deleted, statusSet, keyReq>>
  /\ UNCHANGED <<coreVars, sseVars, streamVars, siteVars>>

\* lines 153-160: initializeKeyStats, and createKey returns
CreateKeyReturn ==
  /\ adm.pc = "createWritten"
  /\ statsFile' = InitializeKeyStats(statsFile, adm.keyId)
  /\ created' = [k \in DOMAIN created \cup {adm.keyId} |->
                   IF k = adm.keyId
                   THEN CreateKeyResult(Cardinality(DOMAIN created) + 1, adm.data)
                   ELSE created[k]]
  /\ adm' = NoAdminOp
  /\ UNCHANGED <<keysFile, keyRateLimiters, deleted, statusSet, keyReq>>
  /\ UNCHANGED <<coreVars, sseVars, streamVars, siteVars>>

\* lines 240-246: updateKey has read the key file and found the key
UpdateKeyRead(keyId, updates) ==
  /\ adm.pc = "idle"
  /\ keyId \in DOMAIN keysFile
  /\ adm' = [pc |-> "updateRead", keyId |-> keyId, data |-> updates, snap |-> keysFile]
  /\ UNCHANGED <<keysFile, statsFile, keyRateLimiters, created, deleted, statusSet, keyReq>>
  /\ UNCHANGED <<coreVars, sseVars, streamVars, siteVars>>

\* lines 248-259: updateKey writes the key file it read, with the fields changed
UpdateKeyWrite ==
  /\ adm.pc = "updateRead"
  /\ keysFile' = [adm.snap EXCEPT ![adm.keyId] = KeyUpdated(@, adm.data, now)]
  /\ statusSet' = IF "status" \in DOMAIN adm.data
                  THEN [k \in DOMAIN statusSet \cup {adm.keyId} |->
                          IF k = adm.keyId THEN adm.data.status ELSE statusSet[k]]
                  ELSE statusSet
  /\ adm' = NoAdminOp
  /\ UNCHANGED <<statsFile, keyRateLimiters, created, deleted, keyReq>>
  /\ UNCHANGED <<coreVars, sseVars, streamVars, siteVars>>

\* lines 267-273: deleteKey has read the key file and found the key
DeleteKeyRead(keyId) ==
  /\ adm.pc = "idle"
  /\ keyId \in DOMAIN keysFile
  /\ adm' = [pc |-> "deleteRead", keyId |-> keyId, data |-> <<>>, snap |-> keysFile]
  /\ UNCHANGED <<keysFile, statsFile, keyRateLimiters, created, deleted, statusSet, keyReq>>
  /\ UNCHANGED <<coreVars, sseVars, streamVars, siteVars>>

\* lines 275-281: deleteKey writes the key file it read, without the key, and
\* cleanupKeyStats removes the statistics of the key
DeleteKeyWrite ==
  /\ adm.pc = "deleteRead"
  /\ keysFile' = WithoutKey(adm.snap, adm.keyId)
  /\ statsFile' = CleanupKeyStats(statsFile, adm.keyId)
  /\ deleted' = deleted \cup {adm.keyId}
  /\ adm' = NoAdminOp
  /\ UNCHANGED <<keyRateLimiters, created, statusSet, keyReq>>
  /\ UNCHANGED <<coreVars, sseVars, streamVars, siteVars>>

(***************************************************************************)
(* The storage files (StorageManager, src/src/utils/storage.js).  A file   *)
(* system keeps contents in inodes; a path names an inode, an open file    *)
(* descriptor keeps its inode whatever the path names later.  Texts are    *)
(* sequences of one-character strings.                                     *)
(***************************************************************************)
Writers == 1..MaxWriters

\* the data of the file at the start, and the data writer w hands to writeJson
InitialData == <<0>>
Data(w) == [i \in 1..(MaxWriters + 1 - w) |-> w]

Digits == <<"0", "1", "2", "3", "4", "5", "6", "7", "8", "9">>
Whitespace == {" ", LF}

\* line 54: JSON.stringify(data, null, 2) of an array of one-digit numbers
RECURSIVE StringifyItems(_)
StringifyItems(data) ==
  IF Len(data) = 0 THEN <<>>
  ELSE <<LF, " ", " ", Digits[Head(data) + 1]>>
         \o (IF Len(data) > 1 THEN <<",">> ELSE <<>>)
         \o StringifyItems(Tail(data))
Stringify(data) ==
  IF Len(data) = 0 THEN <<"[", "]">>
  ELSE <<"[">> \o StringifyItems(data) \o <<LF, "]">>

\* line 37: JSON.parse of a text; ok is FALSE where it throws a SyntaxError
Parse(text) ==
  LET t == SelectSeq(text, LAMBDA c : c \notin Whitespace)
      n == Len(t)
      IsDigit(c) == \E d \in 1..Len(Digits) : Digits[d] = c
      Value(c) == (CHOOSE d \in 1..Len(Digits) : Digits[d] = c) - 1
      inner == SubSeq(t, 2, n - 1)
      wellFormed ==
        /\ n >= 2
        /\ t[1] = "["
        /\ t[n] = "]"
        /\ Len(inner) = 0 \/ Len(inner) % 2 = 1
        /\ \A i \in 1..Len(inner) :
             IF i % 2 = 1 THEN IsDigit(inner[i]) ELSE inner[i] = ","
  IN IF wellFormed
     THEN [ok |-> TRUE,
           data |-> [i \in 1..((Len(inner) + 1) \div 2) |-> Value(inner[2 * i - 1])]]
     ELSE [ok |-> FALSE, data |-> <<>>]

\* write(fd, text) at position 0 of an inode: what lies beyond the text stays
Overwrite(old, text) == text \o SubSeq(old, Len(text) + 1, Len(old))

\* no writeJson in progress
NoWrite == [pc |-> "idle", fd |-> 0]

\* the file holds the initial data, there is no temporary file
StoreInit ==
  /\ inodes = <<Stringify(InitialData)>>
  /\ filePath = 1
  /\ tempPath = 0
  /\ writers = [w \in Writers |-> NoWrite]
  /\ crashed = FALSE
  /\ readSeen = Parse(Stringify(InitialData))

\* line 54, fs.writeFile: the temporary file is opened for writing, created
\* if it is not there and truncated if it is
WriteOpen(w) ==
  /\ ~crashed
  /\ writers[w].pc = "idle"
  /\ IF tempPath = 0
     THEN /\ inodes' = Append(inodes, <<>>)
          /\ tempPath' = Len(inodes) + 1
     ELSE /\ inodes' = [inodes EXCEPT ![tempPath] = <<>>]
          /\ UNCHANGED tempPath
  /\ writers' = [writers EXCEPT ![w] = [pc |-> "open", fd |-> tempPath']]
  /\ UNCHANGED <<filePath, crashed, readSeen>>
  /\ UNCHANGED <<coreVars, sseVars, streamVars, keyVars, offStoreVars>>

\* line 54, fs.writeFile: the text is written to the open file, which is closed
WriteData(w) ==
  /\ ~crashed
  /\ writers[w].pc = "open"
  /\ inodes' = [inodes EXCEPT ![writers[w].fd] = Overwrite(@, Stringify(Data(w)))]
  /\ writers' = [writers EXCEPT ![w].pc = "written"]
  /\ UNCHANGED <<filePath, tempPath, crashed, readSeen>>
  /\ UNCHANGED <<coreVars, sseVars, streamVars, keyVars, offStoreVars>>

\* lines 57-63: fs.rename of the temporary file to the file; writeJson
\* returns true, or throws the ENOENT of a temporary file that is not there
WriteRename(w) ==
  /\ ~crashed
  /\ writers[w].pc = "written"
  /\ IF tempPath # 0
     THEN /\ filePath' = tempPath
          /\ tempPath' = 0
          /\ writers' = [writers EXCEPT ![w].pc = "returned"]
     ELSE /\ writers' = [writers EXCEPT ![w].pc = "thrown"]
          /\ UNCHANGED <<filePath, tempPath>>
  /\ UNCHANGED <<inodes, crashed, readSeen>>
  /\ UNCHANGED <<coreVars, sseVars, streamVars, keyVars, offStoreVars>>

\* lines 33-45: readJson reads the file and parses it
ReadJson ==
  /\ readSeen' = Parse(inodes[filePath])
  /\ readSeen' # readSeen
  /\ UNCHANGED <<inodes, filePath, tempPath, writers, crashed>>
  /\ UNCHANGED <<coreVars, sseVars, streamVars, keyVars, offStoreVars>>

\* the process is killed: every writeJson stops where it is
Crash ==
  /\ ~crashed
  /\ crashed' = TRUE
  /\ UNCHANGED <<inodes, filePath, tempPath, writers, readSeen>>
  /\ UNCHANGED <<coreVars, sseVars, streamVars, keyVars, offStoreVars>>

(***************************************************************************)
(* The device flows of the dashboard (AccountRoutes, src/unnamed/part_006) *)
(* and of the proxy (handleAuthInitiate and handleAuthPoll,                *)
(* src/unnamed/part_005).                                                  *)
(***************************************************************************)
FlowIds == 1..MaxFlows
FlowRequests == 1..MaxFlowRequests
\* what the vendor's device-code endpoint and initiateDeviceFlow make for the
\* n-th flow
DeviceCodes == <<"DC1", "DC2", "DC3">>
UserCodes == <<"UC1", "UC2", "UC3">>
CodeVerifiers == <<"V1", "V2", "V3">>
\* expires_in (seconds) of the vendor's device flows: 15 minutes
FlowExpiresIn == 900
\* the account ids the dashboard asks a flow for
FlowAccountIds == {"a1", "a3"}
\* the step (ms) of the clock between the requests of the dashboard: half
\* the lifetime of a flow
FlowClockStep == (FlowExpiresIn * MsPerSecond) \div 2
\* what pollForToken gives back: the result object, or an exception
PollResults == {"success", "pending", "failed", "throws"}

\* QwenAuthManager.initiateDeviceFlow, for the n-th flow
InitiateDeviceFlow(n) ==
  [device_code |-> DeviceCodes[n],
   user_code |-> UserCodes[n],
   verification_uri |-> "https://chat.qwen.ai/authorize",
   verification_uri_complete |-> "https://chat.qwen.ai/authorize?user_code",
   expires_in |-> FlowExpiresIn,
   interval |-> 5,
   code_verifier |-> CodeVerifiers[n]]

\* the call pollForToken(device_code, code_verifier) as the vendor sees it
PollForToken(device_code, code_verifier) ==
  [device_code |-> device_code, code_verifier |-> code_verifier]

\* the credentials pollForToken saves for the account of a completed flow
CompletedCredentials(at) ==
  [access_token |-> "T2", token_type |-> "Bearer", refresh_token |-> "R2",
   resource_url |-> "U2", expiry_date |-> at + 3600 * MsPerSecond]

\* part_006 lines 276-286: flowData
FlowData(accountId, deviceFlow, at, user) ==
  [accountId |-> accountId,
   deviceCode |-> deviceFlow.device_code,
   userCode |-> deviceFlow.user_code,
   verificationUri |-> deviceFlow.verification_uri,
   verificationUriComplete |-> deviceFlow.verification_uri_complete,
   expiresIn |-> deviceFlow.expires_in,
   interval |-> deviceFlow.interval,
   createdAt |-> at,
   createdBy |-> user]

\* a flow that never expires
FlowNeverExpired(flowData, at) == FALSE

\* part_006 lines 336-338 and 560-561: flowAge > flowData.expiresIn, the age
\* in seconds
FlowExpired(flowData, at) == at - flowData.createdAt > flowData.expiresIn * MsPerSecond

\* Map.delete
FlowsWithout(flows, deviceCodes) == [c \in DOMAIN flows \ deviceCodes |-> flows[c]]

\* part_006 lines 557-566: cleanupExpiredFlows, the map afterwards
CleanupExpiredFlows(flows, at) ==
  FlowsWithout(flows, {c \in DOMAIN flows : FlowExpired(flows[c], at)})

\* a status request that has not arrived
NoFlowRequest == [pc |-> "idle", deviceCode |-> "", flowData |-> <<>>, status |-> 0, type |-> ""]

\* part_006 line 162: no flow; no flow issued, no poll made, no request
FlowInit ==
  /\ activeDeviceFlows = <<>>
  /\ issued = <<>>
  /\ polls = {}
  /\ flowReq = [r \in FlowRequests |-> NoFlowRequest]

\* the answer of a status request
FlowAnswer(req, status, type) == [req EXCEPT !.pc = "answered", !.status = status, !.type = type]

\* part_006 lines 255-318: POST /api/accounts/initiate
Initiate(accountId) ==
  /\ Len(issued) < MaxFlows
  /\ IF \E i \in 1..Len(AccountIds) : AccountIds[i] = accountId
     THEN UNCHANGED <<activeDeviceFlows, issued>>
     ELSE LET deviceFlow == InitiateDeviceFlow(Len(issued) + 1)
              flowData == FlowData(accountId, deviceFlow, now, "admin")
              flows == [c \in DOMAIN activeDeviceFlows \cup {deviceFlow.device_code} |->
                          IF c = deviceFlow.device_code THEN flowData
                          ELSE activeDeviceFlows[c]]
          IN /\ activeDeviceFlows' = CleanupExpiredFlows(flows, now)
             /\ issued' = Append(issued, deviceFlow)
  /\ UNCHANGED <<polls, flowReq>>
  /\ UNCHANGED <<coreVars, sseVars, streamVars, keyVars, offFlowVars>>

\* part_006 lines 321-349: GET /api/accounts/status/:deviceCode, up to the
\* call of pollForToken
StatusStart(r, deviceCode) ==
  /\ flowReq[r].pc = "idle"
  /\ \A q \in FlowRequests : q < r => flowReq[q].pc # "idle"
  /\ LET req == [flowReq[r] EXCEPT !.deviceCode = deviceCode]
     IN IF deviceCode \notin DOMAIN activeDeviceFlows
        THEN /\ flowReq' = [flowReq EXCEPT ![r] = FlowAnswer(req, 404, "not_found")]
             /\ UNCHANGED <<activeDeviceFlows, polls>>
        ELSE LET flowData == activeDeviceFlows[deviceCode]
             IN IF FlowExpired(flowData, now)
                THEN /\ activeDeviceFlows' = FlowsWithout(activeDeviceFlows, {deviceCode})
                     /\ flowReq' = [flowReq EXCEPT ![r] = FlowAnswer(req, 400, "expired")]
                     /\ UNCHANGED polls
                ELSE /\ polls' = polls \cup {PollForToken(deviceCode, flowData.accountId)}
                     /\ flowReq' = [flowReq EXCEPT ![r] =
                          [req EXCEPT !.pc = "polling", !.flowData = flowData]]
                     /\ UNCHANGED activeDeviceFlows
  /\ UNCHANGED issued
  /\ UNCHANGED <<coreVars, sseVars, streamVars, keyVars, offFlowVars>>

\* part_006 lines 349-396: pollForToken has settled
StatusDone(r, result) ==
  /\ flowReq[r].pc = "polling"
  /\ LET req == flowReq[r]
         accountId == req.flowData.accountId
     IN /\ activeDeviceFlows' =
             IF result \in {"success", "failed"}
             THEN FlowsWithout(activeDeviceFlows, {req.deviceCode})
             ELSE activeDeviceFlows
        /\ flowReq' = [flowReq EXCEPT ![r] =
             IF result = "success" THEN FlowAnswer(req, 200, "completed")
             ELSE IF result = "pending" THEN FlowAnswer(req, 200, "pending")
             ELSE IF result = "failed" THEN FlowAnswer(req, 400, "oauth_error")
             ELSE FlowAnswer(req, 500, "server_error")]
        /\ IF result = "success"
           THEN /\ AccountIds' =
                     IF \E i \in 1..Len(AccountIds) : AccountIds[i] = accountId
                     THEN AccountIds ELSE Append(AccountIds, accountId)
                /\ accounts' = [accounts EXCEPT ![accountId] = CompletedCredentials(now)]
           ELSE UNCHANGED <<AccountIds, accounts>>
  /\ UNCHANGED <<issued, polls>>
  /\ UNCHANGED <<now, advances, authDead, lastRefresh, authErrors, lockVars, schedVars,
                 forceVars, reqVars, usageVars>>
  /\ UNCHANGED <<sseVars, streamVars, keyVars, offFlowVars>>

\* part_006 lines 524-553: DELETE /api/accounts/flows/:deviceCode
CancelFlow(deviceCode) ==
  /\ deviceCode \in DOMAIN activeDeviceFlows
  /\ activeDeviceFlows' = FlowsWithout(activeDeviceFlows, {deviceCode})
  /\ UNCHANGED <<issued, polls, flowReq>>
  /\ UNCHANGED <<coreVars, sseVars, streamVars, keyVars, offFlowVars>>

\* part_006 lines 494-497: GET /api/accounts/flows sweeps the map before it
\* lists the flows
ListFlows ==
  /\ activeDeviceFlows' = CleanupExpiredFlows(activeDeviceFlows, now)
  /\ UNCHANGED <<issued, polls, flowReq>>
  /\ UNCHANGED <<coreVars, sseVars, streamVars, keyVars, offFlowVars>>

\* part_005 lines 296-319: POST /auth/initiate; the device flow, with its
\* code_verifier, goes to the client
HandleAuthInitiate ==
  /\ Len(issued) < MaxFlows
  /\ issued' = Append(issued, InitiateDeviceFlow(Len(issued) + 1))
  /\ UNCHANGED <<activeDeviceFlows, polls, flowReq>>
  /\ UNCHANGED <<coreVars, sseVars, streamVars, keyVars, offFlowVars>>

\* part_005 lines 336-358: POST /auth/poll with the device_code and the
\* code_verifier of the request body
HandleAuthPoll(device_code, code_verifier) ==
  /\ device_code # ""
  /\ code_verifier # ""
  /\ polls' = polls \cup {PollForToken(device_code, code_verifier)}
  /\ UNCHANGED <<activeDeviceFlows, issued, flowReq>>
  /\ UNCHANGED <<coreVars, sseVars, streamVars, keyVars, offFlowVars>>

(***************************************************************************)
(* The handlers of the proxy (part_005): what they pass to the QwenAPI     *)
(* client and what they answer.                                            *)
(***************************************************************************)
\* a value of a request, as far as the handlers look at it: undefined (the
\* field is absent), a number, or a string of n characters
JsUndefined == [type |-> "undefined", n |-> 0]
JsNumber(n) == [type |-> "number", n |-> n]
JsString(n) == [type |-> "string", n |-> n]
\* !!v: undefined, 0 and '' are falsy
Truthy(v) == v.type # "undefined" /\ v.n # 0
\* a || b
Or(a, b) == IF Truthy(a) THEN a ELSE b

\* the message of a thrown error, as far as the handlers look at it: the
\* phrases it includes
Phrases == {"Validation error", "Not authenticated", "access token", "quota", "exceeded"}
\* message.includes(phrase)
Includes(message, phrase) == phrase \in message
\* what a call of the QwenAPI client comes to
Returns == [ok |-> TRUE, message |-> {}]
Throws(message) == [ok |-> FALSE, message |-> message]

\* errorFormatter.js lines 31-33
OpenAIValidationError == OpenAIApiError("validation_error", 400)
\* errorFormatter.js line 13: openAIApiError(message), type and code defaulted
OpenAIApiErrorOf(message) == OpenAIApiError("api_error", 500)
\* errorFormatter.js line 13: openAIApiError(message, type), code defaulted
OpenAIApiErrorTyped(message, type) == OpenAIApiError(type, 500)
\* the answer of a request that succeeded
Ok == [status |-> 200, type |-> ""]

\* lines 104, 159, 229, 277, 469: the test for an authentication error
IsAuthenticationError(message) ==
  Includes(message, "Not authenticated") \/ Includes(message, "access token")

\* lines 144-165 and 82-111 (the call was chatCompletions), lines 214-243
\* (it was streamChatCompletions): the answer to the error it threw
ChatCompletionError(isStreaming, message) ==
  IF isStreaming
  THEN IF IsAuthenticationError(message) THEN OpenAIAuthError
       ELSE OpenAIApiErrorOf(message)
  ELSE IF IsAuthenticationError(message) THEN OpenAIAuthError
       \* line 165: thrown again, and caught at line 82
       ELSE IF Includes(message, "Validation error") THEN OpenAIValidationError
       ELSE OpenAIApiErrorOf(message)

\* lines 265-291
ModelsError(message) ==
  IF IsAuthenticationError(message)
  THEN [status |-> 401, type |-> "authentication_error"]
  ELSE [status |-> 500, type |-> "internal_server_error"]

\* lines 320-332
AuthInitiateError(message) == [status |-> 500, type |-> "authentication_error"]

\* lines 376-394
AuthPollError(message) ==
  IF Includes(message, "Validation error") THEN OpenAIValidationError
  ELSE OpenAIApiErrorTyped(message, "authentication_error")

\* lines 447-488
WebSearchError(message) ==
  IF Includes(message, "Validation error") THEN OpenAIValidationError
  ELSE IF IsAuthenticationError(message) THEN OpenAIAuthError
  ELSE IF Includes(message, "quota") \/ Includes(message, "exceeded")
  THEN [status |-> 429, type |-> "quota_exceeded"]
  ELSE OpenAIApiErrorOf(message)

\* lines 117, 176, 422: the account the request names
AccountId(req) == Or(Or(req.xQwenAccount, req.queryAccount), req.body.account)

\* lines 119-131 and 179-191: the argument of chatCompletions and of
\* streamChatCompletions
ChatParams(req) ==
  [model |-> Or(req.body.model, config.defaultModel),
   messages |-> req.body.messages,
   tools |-> req.body.tools,
   tool_choice |-> req.body.tool_choice,
   temperature |-> Or(req.body.temperature, config.defaultTemperature),
   max_tokens |-> Or(req.body.max_tokens, config.defaultMaxTokens),
   top_p |-> Or(req.body.top_p, config.defaultTopP),
   top_k |-> Or(req.body.top_k, config.defaultTopK),
   repetition_penalty |-> Or(req.body.repetition_penalty, config.defaultRepetitionPenalty),
   reasoning |-> req.body.reasoning,
   accountId |-> AccountId(req)]

\* lines 425-430: the argument of webSearch
WebSearchParams(req) ==
  [query |-> req.body.query,
   page |-> Or(req.body.page, JsNumber(1)),
   rows |-> Or(req.body.rows, JsNumber(10)),
   accountId |-> AccountId(req)]

\* lines 403-416: the message of the validation error of a web search, ""
\* when the body passes
WebSearchInvalid(body) ==
  IF ~Truthy(body.query) \/ body.query.type # "string"
  THEN "Query parameter is required and must be a string"
  ELSE IF Truthy(body.page) /\ (body.page.type # "number" \/ body.page.n < 1)
  THEN "Page must be a positive integer"
  ELSE IF Truthy(body.rows)
          /\ (body.rows.type # "number" \/ body.rows.n < 1 \/ body.rows.n > 100)
  THEN "Rows must be a number between 1 and 100"
  ELSE ""

\* no request has been answered
CallIdle ==
  /\ responses = <<>>
  /\ calls = <<>>

\* the defaults of a deployment that configures none
NoDefaults ==
  [defaultModel |-> JsUndefined, defaultTemperature |-> JsUndefined,
   defaultMaxTokens |-> JsUndefined, defaultTopP |-> JsUndefined,
   defaultTopK |-> JsUndefined, defaultRepetitionPenalty |-> JsUndefined]

CallInit == CallIdle /\ config = NoDefaults

\* res.status(error.status).json(error.body), or res.json(response)
Answer(handler, req, error) ==
  responses' = Append(responses, [handler |-> handler, req |-> req,
                                    status |-> error.status, type |-> error.type])

\* a call of the QwenAPI client by the request being answered
Call(api, params) ==
  calls' = Append(calls, [n |-> Len(responses) + 1, api |-> api, params |-> params])

\* lines 64-167 and 169-245: POST /v1/chat/completions, whose call of the
\* QwenAPI client returns or throws
HandleChatCompletion(req, outcome) ==
  /\ Len(responses) < MaxResponses
  /\ LET isStreaming == req.body.stream
     IN /\ Call(IF isStreaming THEN "streamChatCompletions" ELSE "chatCompletions",
                ChatParams(req))
        /\ Answer("handleChatCompletion", req,
                  IF outcome.ok THEN Ok
                  ELSE ChatCompletionError(isStreaming, outcome.message))
  /\ UNCHANGED config
  /\ UNCHANGED <<coreVars, sseVars, streamVars, keyVars, offCallVars>>

\* lines 247-293: GET /v1/models
HandleModels(outcome) ==
  /\ Len(responses) < MaxResponses
  /\ Call("listModels", <<>>)
  /\ Answer("handleModels", <<>>, IF outcome.ok THEN Ok ELSE ModelsError(outcome.message))
  /\ UNCHANGED config
  /\ UNCHANGED <<coreVars, sseVars, streamVars, keyVars, offCallVars>>

\* lines 297-300 and 320-333: POST /auth/initiate when initiateDeviceFlow throws
AuthInitiateFails(message) ==
  /\ Len(responses) < MaxResponses
  /\ Call("initiateDeviceFlow", <<>>)
  /\ Answer("handleAuthInitiate", <<>>, AuthInitiateError(message))
  /\ UNCHANGED config
  /\ UNCHANGED <<coreVars, sseVars, streamVars, keyVars, offCallVars>>

\* lines 336-355: POST /auth/poll without a device_code or a code_verifier
AuthPollMissing(device_code, code_verifier) ==
  /\ Len(responses) < MaxResponses
  /\ device_code = "" \/ code_verifier = ""
  /\ Answer("handleAuthPoll", <<device_code, code_verifier>>,
            [status |-> 400, type |-> "invalid_request"])
  /\ UNCHANGED <<config, calls>>
  /\ UNCHANGED <<coreVars, sseVars, streamVars, keyVars, offCallVars>>

\* lines 336-358 and 376-395: POST /auth/poll when pollForToken throws
AuthPollFails(device_code, code_verifier, message) ==
  /\ Len(responses) < MaxResponses
  /\ device_code # ""
  /\ code_verifier # ""
  /\ polls' = polls \cup {PollForToken(device_code, code_verifier)}
  /\ Call("pollForToken", <<device_code, code_verifier>>)
  /\ Answer("handleAuthPoll", <<device_code, code_verifier>>, AuthPollError(message))
  /\ UNCHANGED <<config, activeDeviceFlows, issued, flowReq, storeVars, countVars>>
  /\ UNCHANGED <<coreVars, sseVars, streamVars, keyVars>>

\* lines 398-490: POST /v1/web/search
HandleWebSearch(req, outcome) ==
  /\ Len(responses) < MaxResponses
  /\ IF WebSearchInvalid(req.body) # ""
     THEN /\ Answer("handleWebSearch", req, OpenAIValidationError)
          /\ UNCHANGED calls
     ELSE /\ Call("webSearch", WebSearchParams(req))
          /\ Answer("handleWebSearch", req,
                    IF outcome.ok THEN Ok ELSE WebSearchError(outcome.message))
  /\ UNCHANGED config
  /\ UNCHANGED <<coreVars, sseVars, streamVars, keyVars, offCallVars>>

(***************************************************************************)
(* The key API of the dashboard: the routes of the server (part_005 lines  *)
(* 1206-1298) and the routes of ApiKeyRoutes behind requireAuth            *)
(* (routes/apikeys.js).  A path is the sequence of its segments.           *)
(***************************************************************************)
\* req.session: none, one that has not logged in, one createSession has set up
NoSession == [exists |-> FALSE, authenticated |-> FALSE, user |-> ""]
AnonymousSession == [exists |-> TRUE, authenticated |-> FALSE, user |-> ""]
AdminSession == [exists |-> TRUE, authenticated |-> TRUE, user |-> "admin"]

\* apikeys.js lines 19, 64, 218, 297: the path the router is mounted at, and
\* the paths of its routes
KeysMount == <<"api", "keys">>
KeysRoutes == {"list", "create", "delete", "stats"}
RoutePath(route) ==
  IF route = "delete" THEN KeysMount \o <<":keyId">>
  ELSE IF route = "stats" THEN KeysMount \o <<"stats">>
  ELSE KeysMount

\* req.path in the middleware of a router: the path of the request without
\* the path the router is mounted at
RouterPath(path, mount) == SubSeq(path, Len(mount) + 1, Len(path))

\* middleware/auth.js lines 30-56: requireAuth, for req.path and req.session
RequireAuth(path, session) ==
  IF session.exists /\ session.authenticated /\ session.user # ""
  THEN [next |-> TRUE, status |-> 0, error |-> "", type |-> ""]
  ELSE IF path # <<>> /\ Head(path) = "api" /\ Len(path) > 1
  THEN [next |-> FALSE, status |-> 401, error |-> "Authentication required",
        type |-> "authentication_required"]
  ELSE [next |-> FALSE, status |-> 302, error |-> "", type |-> ""]

\* the answer of a route of the key API: the status, the error of the body
\* and the key data of the body
KeysAnswer(api, route, session, status, error, type, data) ==
  responses' = Append(responses,
                      [handler |-> api, req |-> [route |-> route, session |-> session],
                       status |-> status, type |-> type, error |-> error, data |-> data])

\* part_005 lines 1206-1298: GET /api/keys, POST /api/keys,
\* DELETE /api/keys/:keyId and GET /api/keys/stats of the server, which
\* answer with mock data
ServerKeys(route, session) ==
  /\ Len(responses) < MaxResponses
  /\ IF ~(session.exists /\ session.authenticated)
     THEN KeysAnswer("server", route, session, 401, "Not authenticated", "", {})
     ELSE KeysAnswer("server", route, session, 200, "", "",
                     IF route = "delete" THEN {} ELSE {[id |-> 0]})
  /\ UNCHANGED <<config, calls, keyVars>>
  /\ UNCHANGED <<coreVars, sseVars, streamVars, offCallVars>>

\* apikeys.js lines 17-62, 65-101, 219-262 and 298-317: the same routes of
\* ApiKeyRoutes, with nothing else between the read and the write of a file
RouterKeys(route, session, keyId) ==
  /\ Len(responses) < MaxResponses
  /\ Quiet
  /\ LET guard == RequireAuth(RouterPath(RoutePath(route), KeysMount), session)
         n == Cardinality(DOMAIN created) + 1
         keyData == KeyData(n, DefaultPermissions, Null, now)
     IN IF ~guard.next
        THEN /\ KeysAnswer("router", route, session, guard.status, guard.error,
                           guard.type, {})
             /\ UNCHANGED <<keysFile, statsFile, created, deleted>>
        ELSE IF route = "list"
        THEN /\ KeysAnswer("router", route, session, 200, "", "", ListKeys(keysFile))
             /\ UNCHANGED <<keysFile, statsFile, created, deleted>>
        ELSE IF route = "stats"
        THEN /\ KeysAnswer("router", route, session, 200, "", "",
                           {[id |-> 0, totalKeys |-> Cardinality(DOMAIN keysFile)]})
             /\ UNCHANGED <<keysFile, statsFile, created, deleted>>
        ELSE IF route = "create"
        THEN IF n > MaxKeys
             THEN /\ KeysAnswer("router", route, session, 500, "Failed to create API key",
                                "server_error", {})
                  /\ UNCHANGED <<keysFile, statsFile, created, deleted>>
             ELSE /\ keysFile' = WithKey(keysFile, keyData)
                  /\ statsFile' = InitializeKeyStats(statsFile, keyData.id)
                  /\ created' = [k \in DOMAIN created \cup {keyData.id} |->
                                   IF k = keyData.id THEN CreateKeyResult(n, keyData)
                                   ELSE created[k]]
                  /\ UNCHANGED deleted
                  /\ KeysAnswer("router", route, session, 200, "", "",
                                {CreateKeyResult(n, keyData)})
        ELSE IF keyId \notin DOMAIN keysFile
        THEN /\ KeysAnswer("router", route, session, 404, "API key not found",
                           "not_found", {})
             /\ UNCHANGED <<keysFile, statsFile, created, deleted>>
        ELSE /\ keysFile' = WithoutKey(keysFile, keyId)
             /\ statsFile' = CleanupKeyStats(statsFile, keyId)
             /\ deleted' = deleted \cup {keyId}
             /\ UNCHANGED created
             /\ KeysAnswer("router", route, session, 200, "", "", {})
  /\ UNCHANGED <<config, calls, keyRateLimiters, statusSet, keyReq, adm>>
  /\ UNCHANGED <<coreVars, sseVars, streamVars, offCallVars>>

(***************************************************************************)
(* The usage counters: request_counts.json, which the QwenAPI client       *)
(* writes, and the usage report that reads it (src/usage.js).  A date is   *)
(* the number of its UTC day.                                              *)
(***************************************************************************)
RECURSIVE SumOf(_)
\* the sum of the values of f
SumOf(f) ==
  IF DOMAIN f = {} THEN 0
  ELSE LET k == CHOOSE j \in DOMAIN f : TRUE
       IN f[k] + SumOf([j \in DOMAIN f \ {k} |-> f[j]])

\* token-usage-tracking.md lines 25-37: the file before anything is counted
CountInit ==
  /\ countsFile = [lastResetDate |-> UtcDay(now), requests |-> <<>>,
                   webSearchRequests |-> <<>>, webSearchResults |-> <<>>,
                   tokenUsage |-> <<>>]
  /\ usageReport = <<>>

\* README.md line 56: the request counts are reset daily at UTC midnight
ResetIfNeeded(counts, today) ==
  IF counts.lastResetDate < today
  THEN [counts EXCEPT !.lastResetDate = today, !.requests = <<>>,
                      !.webSearchRequests = <<>>, !.webSearchResults = <<>>]
  ELSE counts

\* the count of the account, which starts at 0, goes up by one
Incremented(requests, accountId) ==
  [a \in DOMAIN requests \cup {accountId} |->
     IF a = accountId
     THEN (IF a \in DOMAIN requests THEN requests[a] ELSE 0) + 1
     ELSE requests[a]]

\* token-usage-tracking.md lines 31-36: the entry of the date gets the tokens
\* of the request
TokensAdded(tokenUsage, accountId, today, inputTokens, outputTokens) ==
  LET usageData == IF accountId \in DOMAIN tokenUsage THEN tokenUsage[accountId] ELSE <<>>
      entry == IF today \in DOMAIN usageData THEN usageData[today]
               ELSE [inputTokens |-> 0, outputTokens |-> 0]
      added == [inputTokens |-> entry.inputTokens + inputTokens,
                outputTokens |-> entry.outputTokens + outputTokens]
  IN [a \in DOMAIN tokenUsage \cup {accountId} |->
        IF a = accountId
        THEN [d \in DOMAIN usageData \cup {today} |->
                IF d = today THEN added ELSE usageData[d]]
        ELSE tokenUsage[a]]

\* usage.js lines 64-144: dailyUsage, for the file and the date of the report
DailyUsage(counts, today) ==
  LET tokenDates == UNION {DOMAIN counts.tokenUsage[a] : a \in DOMAIN counts.tokenUsage}
      \* lines 92-108, 111-127, 130-146: every count of the file goes to today
      todayDates == IF DOMAIN counts.requests # {}
                       \/ DOMAIN counts.webSearchRequests # {}
                       \/ DOMAIN counts.webSearchResults # {}
                    THEN {today} ELSE {}
      tokens(d, field) ==
        SumOf([a \in {b \in DOMAIN counts.tokenUsage : d \in DOMAIN counts.tokenUsage[b]} |->
                 counts.tokenUsage[a][d][field]])
  IN [d \in tokenDates \cup todayDates |->
        [chatRequests |-> IF d = today THEN SumOf(counts.requests) ELSE 0,
         inputTokens |-> tokens(d, "inputTokens"),
         outputTokens |-> tokens(d, "outputTokens"),
         webSearches |-> IF d = today THEN SumOf(counts.webSearchRequests) ELSE 0,
         webResults |-> IF d = today THEN SumOf(counts.webSearchResults) ELSE 0]]

\* a chat request of the account has succeeded: the QwenAPI client counts it
\* and its tokens
CountRequest(accountId) ==
  /\ SumOf([a \in AccountUniverse |-> SumOf(requestCounts[a])]) < MaxCounted
  /\ IncrRequest(accountId)
  /\ LET today == UtcDay(now)
         counts == ResetIfNeeded(countsFile, today)
     IN countsFile' =
          [counts EXCEPT !.requests = Incremented(counts.requests, accountId),
                         !.tokenUsage = TokensAdded(counts.tokenUsage, accountId, today, 1, 1)]
  /\ UNCHANGED usageReport
  /\ UNCHANGED <<envVars, lockVars, credVars, schedVars, forceVars, reqVars, quotaUntil,
                 lastUsed>>
  /\ UNCHANGED <<sseVars, streamVars, keyVars, storeVars, flowVars, callVars>>

\* usage.js lines 8-200: showUsageReport
ShowUsageReport ==
  /\ usageReport' =
       IF DOMAIN countsFile.tokenUsage = {} /\ DOMAIN countsFile.requests = {}
          /\ DOMAIN countsFile.webSearchRequests = {}
       THEN <<>>
       ELSE DailyUsage(countsFile, UtcDay(now))
  /\ UNCHANGED countsFile
  /\ UNCHANGED <<coreVars, sseVars, streamVars, keyVars, storeVars, flowVars, callVars>>

\* nothing in progress at the dashboard and the remaining handlers
SiteIdle == StoreInit /\ FlowInit /\ CallInit /\ CountInit

\* no stream and no request at the edge
EdgeIdle == SseInit(<<>>) /\ StreamInit /\ KeysInit /\ SiteIdle

(***************************************************************************)
(* Specifications.                                                         *)
(***************************************************************************)
\* Date.now() when the model starts: ten minutes before a UTC midnight
StartTime == MsPerDay - 10 * MsPerMinute

InitCreds(start, lifetime) ==
  [access_token |-> "T0", token_type |-> "Bearer", refresh_token |-> "R0",
   resource_url |-> "U0", expiry_date |-> start + lifetime * MsPerSecond]

\* what earlier traffic left in the pool: consecutive_auth_errors and
\* quota_exhausted_until of account "a1"
NoHistory == [errors |-> 0, quota |-> 0]
Histories(start) ==
  {NoHistory,
   [errors |-> AuthErrorThreshold - 1, quota |-> 0],
   [errors |-> AuthErrorThreshold, quota |-> 0],
   [errors |-> 0, quota |-> (start \div MsPerDay + 1) * MsPerDay]}

\* the state at time `start` with the accounts `ids` loaded and the marks `h`
\* on the first of them
InitAt(start, ids, h) ==
  /\ now = start
  /\ AccountIds = ids
  /\ accounts = [a \in AccountUniverse |->
        IF \E i \in 1..Len(ids) : ids[i] = a THEN InitCreds(start, InitLifetime[a])
        ELSE NoCreds]
  /\ accountLocks = [a \in AccountUniverse |-> NoOwner]
  /\ inflight = [a \in AccountUniverse |-> 0]
  /\ authDead = [a \in AccountUniverse |-> FALSE]
  /\ isRefreshing = FALSE
  /\ tickPc = [t \in Ticks |-> "idle"]
  /\ accountsToRefresh = [t \in Ticks |-> <<>>]
  /\ batchIndex = [t \in Ticks |-> 0]
  /\ tickTask = [t \in Ticks |-> [a \in AccountUniverse |-> "none"]]
  /\ tickLoaded = [t \in Ticks |-> FALSE]
  /\ TimerInit
  /\ taskCreds = [o \in Owners |-> [a \in AccountUniverse |-> NoCreds]]
  /\ forcePc = "idle"
  /\ forceIdx = 1
  /\ successCount = 0
  /\ failCount = 0
  /\ advances = 0
  /\ lastRefresh = NoRefresh
  /\ authErrors = [a \in AccountUniverse |-> IF ids # <<>> /\ a = ids[1] THEN h.errors ELSE 0]
  /\ quotaUntil = [a \in AccountUniverse |-> IF ids # <<>> /\ a = ids[1] THEN h.quota ELSE 0]
  /\ lastUsed = [a \in AccountUniverse |->
        IF ids # <<>> /\ a = ids[1] /\ h # NoHistory THEN start - MsPerMinute ELSE 0]
  /\ requestCounts = [a \in AccountUniverse |->
        [d \in UtcDay(start) .. UtcDay(start) + 1 |-> 0]]
  /\ reqPc = [r \in Requests |-> "idle"]
  /\ reqAccount = [r \in Requests |-> NoAccount]
  /\ attempts = [r \in Requests |-> 0]
  /\ attemptsMax = [r \in Requests |-> 0]
  /\ retried = [r \in Requests |-> FALSE]
  /\ reqResult = [r \in Requests |-> "none"]
  /\ reqEvent = [r \in Requests |-> "none"]
  /\ lastResponse = [r \in Requests |-> NoResponse]
  /\ served = [r \in Requests |-> [account |-> NoAccount, at |-> 0]]

\* the refresh subsystem: the scheduler, the force refresh and the clock
\* the dispatch core at its start, no stream open
Init == InitAt(StartTime, <<"a1", "a2">>, NoHistory) /\ EdgeIdle

Next ==
  \/ \E t \in Ticks : CheckEnter(t)
  \/ \E t \in Ticks : CheckSelect(t)
  \/ \E t \in Ticks, a \in Accounts, reply \in RefreshReplies(TokenDataPlain) :
       TickTaskDone(t, a, reply)
  \/ \E t \in Ticks : BatchSettled(t)
  \/ ForceStart
  \/ ForceNext
  \/ \E reply \in RefreshReplies(TokenDataPlain) : ForceRefreshDone(reply)
  \/ Advance

Spec == Init /\ [][Next]_vars

\* the force refresh alone, against a vendor that may send, leave out or send
\* empty each of refresh_token and resource_url
NextForce ==
  \/ ForceStart
  \/ ForceNext
  \/ \E reply \in RefreshReplies(TokenData) : ForceRefreshDone(reply)
  \/ Advance

SpecForce == Init /\ [][NextForce]_vars

\* the scheduler with more accounts than one batch holds: twenty-one accounts,
\* all but "a2" within ten minutes of their expiry. The refreshes of "a1",
\* "a2" and "a23" settle at any moment and in every way; the other eighteen
\* succeed, one after the other in the order of the list. One check is run
BatchAccounts ==
  <<"a1", "a2", "a5", "a6", "a7", "a8", "a9", "a10", "a11", "a12", "a13", "a14",
    "a15", "a16", "a17", "a18", "a19", "a20", "a21", "a22", "a23">>
AnyOrderAccounts == {"a1", "a2", "a23"}
InListOrder(t, a) ==
  \A k \in 1..Len(AccountIds) :
    k < IndexOf(a) /\ AccountIds[k] \notin AnyOrderAccounts
      => tickTask[t][AccountIds[k]] # "inflight"
LongLived == {td \in TokenDataPlain : td.expires_in = 3600}
InitBatches == InitAt(StartTime, BatchAccounts, NoHistory) /\ EdgeIdle

NextBatches ==
  \/ CheckEnter(1)
  \/ CheckSelect(1)
  \/ \E a \in AnyOrderAccounts, reply \in RefreshReplies(TokenDataPlain) :
       TickTaskDone(1, a, reply)
  \/ \E a \in Accounts \ AnyOrderAccounts, td \in LongLived :
       /\ InListOrder(1, a)
       /\ TickTaskDone(1, a, [ok |-> TRUE, tokenData |-> td, error |-> ""])
  \/ BatchSettled(1)
  \/ Advance

SpecBatches == InitBatches /\ [][NextBatches]_vars

\* the checks of the scheduler alone, with no account configured or with two
InitChecks ==
  /\ \E ids \in {<<>>, <<"a1", "a2">>} : InitAt(StartTime, ids, NoHistory)
  /\ EdgeIdle

NextChecks ==
  \/ \E t \in Ticks : CheckEnter(t)
  \/ \E t \in Ticks : CheckSelect(t)
  \/ \E t \in Ticks : CheckThrows(t)
  \/ \E t \in Ticks, a \in Accounts, reply \in RefreshReplies(TokenDataPlain) :
       TickTaskDone(t, a, reply)
  \/ \E t \in Ticks : BatchSettled(t)
  \/ Advance

SpecChecks == InitChecks /\ [][NextChecks]_vars

\* the scheduler as its callers drive it: startScheduler and stopScheduler
\* called at any moment, the intervals firing at any moment
NextTimers ==
  \/ \E s \in Starts, t \in Ticks : StartScheduler(s, t)
  \/ \E s \in Starts : StartResumes(s)
  \/ \E timer \in timers, t \in Ticks : TimerFires(timer, t)
  \/ StopCalled
  \/ \E t \in Ticks : CheckSelect(t)
  \/ \E t \in Ticks : CheckThrows(t)
  \/ \E t \in Ticks, a \in Accounts, reply \in RefreshReplies(LongLived) :
       TickTaskDone(t, a, reply)
  \/ \E t \in Ticks : BatchSettled(t)

SpecTimers == Init /\ [][NextTimers]_vars

\* the server from its start to its exit: the scheduler is initialized once,
\* requests are served, a signal arrives at any moment
NextShutdown ==
  /\ ~Exited
  /\ \/ \E t \in Ticks : StartScheduler(1, t)
     \/ StartResumes(1)
     \/ \E t \in Ticks : CheckSelect(t)
     \/ \E t \in Ticks, a \in Accounts, td \in LongLived :
          TickTaskDone(t, a, [ok |-> TRUE, tokenData |-> td, error |-> ""])
     \/ \E t \in Ticks : BatchSettled(t)
     \/ \E r \in Requests : ReqStart(r)
     \/ \E r \in Requests : ReqPick(r)
     \/ \E r \in Requests, td \in LongLived :
          ReqRefreshDone(r, [ok |-> TRUE, tokenData |-> td, error |-> ""])
     \/ \E r \in Requests, resp \in {x \in Responses : x.status = 200} :
          ReqResponse(r, resp)
     \/ \E sig \in Signals : Signal(sig)
     \/ \E sig \in Signals : SaveSettles(sig)
     \/ Advance

SpecShutdown == Init /\ [][NextShutdown]_vars

\* the router alone, over two or four accounts
InitRouter ==
  \E ids \in {<<"a1", "a2">>, <<"a1", "a2", "a3", "a4">>}, h \in Histories(StartTime) :
    InitAt(StartTime, ids, h) /\ EdgeIdle

NextRouter ==
  \/ \E r \in Requests : ReqStart(r)
  \/ \E r \in Requests : ReqPick(r)
  \/ \E r \in Requests, reply \in RefreshReplies(TokenDataPlain) : ReqRefreshDone(r, reply)
  \/ \E r \in Requests, resp \in Responses : ReqResponse(r, resp)
  \/ Advance

SpecRouter == InitRouter /\ [][NextRouter]_vars

\* the whole dispatch core over two accounts: scheduler checks, the force
\* refresh and a client request interleave; the vendor answers a refresh with a
\* one-hour token or a network error, a call with 200 or 401
PoolResponses == {resp \in Responses : resp.status \in {200, 401}}
PoolReplies ==
  {reply \in RefreshReplies({td \in TokenDataPlain : td.expires_in = 3600}) :
     reply.error # "invalid_grant"}
InitPool ==
  \E h \in Histories(StartTime) : InitAt(StartTime, <<"a2", "a1">>, h) /\ EdgeIdle

NextPool ==
  \/ \E t \in Ticks : CheckEnter(t)
  \/ \E t \in Ticks : CheckSelect(t)
  \/ \E t \in Ticks, a \in Accounts, reply \in PoolReplies : TickTaskDone(t, a, reply)
  \/ \E t \in Ticks : BatchSettled(t)
  \/ ForceStart
  \/ ForceNext
  \/ \E reply \in PoolReplies : ForceRefreshDone(reply)
  \/ \E r \in Requests : ReqStart(r)
  \/ \E r \in Requests : ReqPick(r)
  \/ \E r \in Requests, reply \in PoolReplies : ReqRefreshDone(r, reply)
  \/ \E r \in Requests, resp \in PoolResponses : ReqResponse(r, resp)

SpecPool == InitPool /\ [][NextPool]_vars

\* the SSE normalizer alone, over every body of up to MaxLines lines cut into
\* chunks at every place
InitSse ==
  \E text \in SseBodies : InitAt(StartTime, <<"a1", "a2">>, NoHistory) /\ SseInit(text) /\ StreamInit /\ KeysInit /\ SiteIdle

NextSse ==
  \/ \E n \in 1..Len(sseText) : SseTransform(n)
  \/ SseFlush

SpecSse == InitSse /\ [][NextSse]_vars

\* one streaming chat completion, its upstream stream and its client
InitStream == InitAt(StartTime, <<"a1", "a2">>, NoHistory) /\ EdgeIdle

NextStream ==
  \/ StreamHandlerStart
  \/ StreamReturned
  \/ \E message \in CallErrors : StreamCallFails(message)
  \/ StreamPiped
  \/ \E chunk \in StreamChunks : StreamData(chunk)
  \/ StreamEnds
  \/ StreamError
  \/ ClientClose

SpecStream == InitStream /\ [][NextStream]_vars

\* the Authorization headers of the requests: a key that was or will be
\* issued, a key of the right form that never is, a key that is too short, a
\* header that is not a bearer token, no header
Bearer(apiKey) == [scheme |-> "Bearer", credentials |-> apiKey]
UnissuedKey == KeyPrefixText \o [i \in 1..HexLength |-> "f"]
ShortKey == KeyPrefixText \o <<"1">>
IssuedHeaders == {Bearer(GenerateApiKey(n)) : n \in KeyIds}
AuthHeaders ==
  IssuedHeaders \cup {Bearer(UnissuedKey), Bearer(ShortKey),
                      [scheme |-> "Basic", credentials |-> <<>>], Null}

\* time passes between two requests
KeyTick ==
  /\ \E d \in KeyClockSteps :
       /\ now + d <= StartTime + MaxKeyTicks * d
       /\ now' = now + d
  /\ UNCHANGED <<advances, AccountIds, lockVars, credVars, schedVars, forceVars, reqVars,
                 usageVars>>
  /\ UNCHANGED edgeVars

\* the key store and the validator, one operation at a time: keys are
\* created, disabled, revoked, enabled and deleted, and requests present them
InitKeys == InitAt(StartTime, <<"a1", "a2">>, NoHistory) /\ EdgeIdle

NextKeys ==
  \/ \E r \in 1..MaxSerialRequests, h \in AuthHeaders :
       Quiet /\ KeyReqArrive(r, h, "/v1/chat/completions")
  \/ \E r \in KeyRequests : KeyReqValidated(r)
  \/ \E r \in KeyRequests : KeyReqRead(r)
  \/ \E r \in KeyRequests : KeyReqWrite(r)
  \/ \E r \in KeyRequests : KeyReqForward(r)
  \/ \E r \in KeyRequests, isError \in BOOLEAN : KeyReqEnd(r, isError)
  \/ \E ps \in {DefaultPermissions, {"full_access"}} : Quiet /\ CreateKeyRead(ps, Null)
  \/ CreateKeyWrite
  \/ CreateKeyReturn
  \/ \E k \in KeyIds, st \in {"active", "disabled", "revoked"} :
       Quiet /\ UpdateKeyRead(k, [status |-> st])
  \/ UpdateKeyWrite
  \/ \E k \in KeyIds : Quiet /\ DeleteKeyRead(k)
  \/ DeleteKeyWrite

SpecKeys == InitKeys /\ [][NextKeys]_vars

\* the validator alone, over keys of every permission set and both endpoints
NextKeyPerms ==
  \/ \E r \in 1..MaxSerialRequests, h \in IssuedHeaders, e \in Endpoints :
       Quiet /\ KeyReqArrive(r, h, e)
  \/ \E r \in KeyRequests : KeyReqValidated(r)
  \/ \E r \in KeyRequests : KeyReqRead(r)
  \/ \E r \in KeyRequests : KeyReqWrite(r)
  \/ \E r \in KeyRequests : KeyReqForward(r)
  \/ \E ps \in PermissionSets : Quiet /\ CreateKeyRead(ps, Null)
  \/ CreateKeyWrite
  \/ CreateKeyReturn

SpecKeyPerms == InitKeys /\ [][NextKeyPerms]_vars

\* the validator alone, over one key with a rate limit, while time passes
NextKeyRate ==
  \/ \E r \in KeyRequests : Quiet /\ KeyReqArrive(r, Bearer(GenerateApiKey(1)), "/v1/models")
  \/ \E r \in KeyRequests : KeyReqValidated(r)
  \/ \E r \in KeyRequests : KeyReqRead(r)
  \/ \E r \in KeyRequests : KeyReqWrite(r)
  \/ \E r \in KeyRequests : KeyReqForward(r)
  \/ \E rl \in RateLimits : Quiet /\ created = <<>> /\ CreateKeyRead(DefaultPermissions, rl)
  \/ CreateKeyWrite
  \/ CreateKeyReturn
  \/ Quiet /\ KeyTick

SpecKeyRate == InitKeys /\ [][NextKeyRate]_vars

\* the validator and the statistics of one key without a rate limit: requests
\* are accepted and answered one at a time, while time passes
NextKeyUsage ==
  \/ \E r \in KeyRequests :
       Quiet /\ KeyReqArrive(r, Bearer(GenerateApiKey(1)), "/v1/chat/completions")
  \/ \E r \in KeyRequests : KeyReqValidated(r)
  \/ \E r \in KeyRequests : KeyReqRead(r)
  \/ \E r \in KeyRequests : KeyReqWrite(r)
  \/ \E r \in KeyRequests : KeyReqForward(r)
  \/ \E r \in KeyRequests, isError \in BOOLEAN : KeyReqEnd(r, isError)
  \/ Quiet /\ created = <<>> /\ CreateKeyRead(DefaultPermissions, Null)
  \/ CreateKeyWrite
  \/ CreateKeyReturn
  \/ Quiet /\ KeyTick

SpecKeyUsage == InitKeys /\ [][NextKeyUsage]_vars

\* the rate limits updateKey gives the key
RateLimitUpdates == {[maxRequests |-> 1, windowMs |-> 30000]}

\* the validator over one key with a rate limit that the dashboard changes
\* between the requests
NextKeyLimit ==
  \/ \E r \in KeyRequests : Quiet /\ KeyReqArrive(r, Bearer(GenerateApiKey(1)), "/v1/models")
  \/ \E r \in KeyRequests : KeyReqValidated(r)
  \/ \E r \in KeyRequests : KeyReqRead(r)
  \/ \E r \in KeyRequests : KeyReqWrite(r)
  \/ \E r \in KeyRequests : KeyReqForward(r)
  \/ \E rl \in RateLimits : Quiet /\ created = <<>> /\ CreateKeyRead(DefaultPermissions, rl)
  \/ CreateKeyWrite
  \/ CreateKeyReturn
  \/ \E k \in KeyIds, rl \in RateLimitUpdates : Quiet /\ UpdateKeyRead(k, [rateLimit |-> rl])
  \/ UpdateKeyWrite
  \/ Quiet /\ KeyTick

SpecKeyLimit == InitKeys /\ [][NextKeyLimit]_vars

\* the key store under overlapping operations: requests that present the
\* first key, while a second key is created, disabled and deleted
NextKeysRace ==
  \/ \E r \in 1..MaxSerialRequests :
       KeyReqArrive(r, Bearer(GenerateApiKey(1)), "/v1/chat/completions")
  \/ \E r \in KeyRequests : KeyReqValidated(r)
  \/ \E r \in KeyRequests : KeyReqRead(r)
  \/ \E r \in KeyRequests : KeyReqWrite(r)
  \/ \E r \in KeyRequests : KeyReqForward(r)
  \/ CreateKeyRead(DefaultPermissions, Null)
  \/ CreateKeyWrite
  \/ CreateKeyReturn
  \/ UpdateKeyRead(2, [status |-> "disabled"])
  \/ UpdateKeyWrite
  \/ DeleteKeyRead(2)
  \/ DeleteKeyWrite

SpecKeysRace == InitKeys /\ [][NextKeysRace]_vars

\* the storage file under overlapping writeJson calls, readers and a crash
InitStorage == InitAt(StartTime, <<"a1", "a2">>, NoHistory) /\ EdgeIdle

NextStorage ==
  \/ \E w \in Writers : WriteOpen(w)
  \/ \E w \in Writers : WriteData(w)
  \/ \E w \in Writers : WriteRename(w)
  \/ ReadJson
  \/ Crash

SpecStorage == InitStorage /\ [][NextStorage]_vars

\* time passes between two requests of the dashboard
FlowTick ==
  /\ now + FlowClockStep <= StartTime + MaxFlowTicks * FlowClockStep
  /\ now' = now + FlowClockStep
  /\ UNCHANGED <<advances, AccountIds, lockVars, credVars, schedVars, forceVars, reqVars,
                 usageVars>>
  /\ UNCHANGED edgeVars

\* the device flows of the dashboard: it initiates, polls and cancels them
InitFlows == InitAt(StartTime, <<"a1", "a2">>, NoHistory) /\ EdgeIdle

NextFlows ==
  \/ \E accountId \in FlowAccountIds : Initiate(accountId)
  \/ \E r \in FlowRequests, n \in FlowIds : StatusStart(r, DeviceCodes[n])
  \/ \E r \in FlowRequests, result \in PollResults : StatusDone(r, result)
  \/ \E n \in FlowIds : CancelFlow(DeviceCodes[n])
  \/ FlowTick

SpecFlows == InitFlows /\ [][NextFlows]_vars

\* the device flows of the dashboard while time goes on: the clock is the
\* only thing that is bound to move, no client has to send anything
NextFlowsLive ==
  \/ \E accountId \in FlowAccountIds : Initiate(accountId)
  \/ \E r \in FlowRequests, n \in FlowIds : StatusStart(r, DeviceCodes[n])
  \/ \E r \in FlowRequests, result \in {"pending", "throws"} : StatusDone(r, result)
  \/ \E n \in FlowIds : CancelFlow(DeviceCodes[n])
  \/ ListFlows
  \/ FlowTick

SpecFlowsLive == InitFlows /\ [][NextFlowsLive]_vars /\ WF_vars(FlowTick)

\* the device flows of the dashboard and of the proxy, whose clients poll
\* with the device_code and the code_verifier they were given
NextPolls ==
  \/ \E accountId \in FlowAccountIds : Initiate(accountId)
  \/ \E r \in FlowRequests, n \in FlowIds : StatusStart(r, DeviceCodes[n])
  \/ \E r \in FlowRequests, result \in PollResults : StatusDone(r, result)
  \/ HandleAuthInitiate
  \/ \E n \in 1..Len(issued) :
       HandleAuthPoll(issued[n].device_code, issued[n].code_verifier)

SpecPolls == InitFlows /\ [][NextPolls]_vars

\* the requests the handlers of the proxy are given
Request(body) == [xQwenAccount |-> JsUndefined, queryAccount |-> JsUndefined, body |-> body]
JsArray(n) == [type |-> "array", n |-> n]
ChatBody(isStreaming, model, temperature, max_tokens, top_p, top_k, repetition_penalty) ==
  [model |-> model, messages |-> JsArray(1), tools |-> JsUndefined,
   tool_choice |-> JsUndefined, temperature |-> temperature, max_tokens |-> max_tokens,
   top_p |-> top_p, top_k |-> top_k, repetition_penalty |-> repetition_penalty,
   reasoning |-> JsUndefined, account |-> JsUndefined, stream |-> isStreaming]
WebSearchBody(query, page, rows) ==
  [query |-> query, page |-> page, rows |-> rows, account |-> JsUndefined]
\* a chat request that leaves every parameter to the defaults
PlainChat(isStreaming) ==
  Request(ChatBody(isStreaming, JsUndefined, JsUndefined, JsUndefined, JsUndefined, JsUndefined,
                   JsUndefined))
Messages == SUBSET Phrases
Outcomes == {Returns} \cup {Throws(message) : message \in Messages}

\* every handler of the proxy, whose call of the QwenAPI client returns or
\* throws an error with any message
InitErrors == InitAt(StartTime, <<"a1", "a2">>, NoHistory) /\ EdgeIdle

NextErrors ==
  \/ \E isStreaming \in BOOLEAN, outcome \in Outcomes :
       HandleChatCompletion(PlainChat(isStreaming), outcome)
  \/ \E outcome \in Outcomes : HandleModels(outcome)
  \/ \E message \in Messages : AuthInitiateFails(message)
  \/ \E device_code \in {"", "DC1"}, code_verifier \in {"", "V1"} :
       AuthPollMissing(device_code, code_verifier)
  \/ \E message \in Messages : AuthPollFails("DC1", "V1", message)
  \/ \E query \in {JsUndefined, JsString(1)}, outcome \in Outcomes :
       HandleWebSearch(Request(WebSearchBody(query, JsUndefined, JsUndefined)), outcome)

SpecErrors == InitErrors /\ [][NextErrors]_vars

\* web searches with every kind of query, page and rows
Queries == {JsUndefined, JsString(0), JsString(1), JsNumber(1)}
Pages == {JsUndefined, JsNumber(-1), JsNumber(0), JsNumber(1), JsNumber(2), JsString(1)}
RowsValues == {JsUndefined, JsNumber(0), JsNumber(1), JsNumber(100), JsNumber(101),
               JsString(1)}

NextWebSearch ==
  \E query \in Queries, page \in Pages, rows \in RowsValues,
     outcome \in {Returns, Throws({"quota"})} :
    HandleWebSearch(Request(WebSearchBody(query, page, rows)), outcome)

SpecWebSearch == InitErrors /\ [][NextWebSearch]_vars

\* chat requests that omit a parameter, give it as 0, or give it as 1, at a
\* deployment with or without configured defaults
SomeDefaults ==
  [defaultModel |-> JsString(1), defaultTemperature |-> JsNumber(2),
   defaultMaxTokens |-> JsNumber(2), defaultTopP |-> JsNumber(2),
   defaultTopK |-> JsNumber(2), defaultRepetitionPenalty |-> JsNumber(2)]
Configs == {NoDefaults, SomeDefaults}
ParamValues == {JsUndefined, JsNumber(0), JsNumber(1)}

InitChat ==
  /\ InitAt(StartTime, <<"a1", "a2">>, NoHistory)
  /\ SseInit(<<>>) /\ StreamInit /\ KeysInit /\ StoreInit /\ FlowInit /\ CallIdle
  /\ CountInit
  /\ config \in Configs

NextChat ==
  \E isStreaming \in BOOLEAN, temperature \in ParamValues, max_tokens \in ParamValues,
     top_p \in {JsUndefined, JsNumber(0)}, top_k \in ParamValues,
     repetition_penalty \in {JsUndefined, JsNumber(0)} :
    HandleChatCompletion(
      Request(ChatBody(isStreaming, JsString(2), temperature, max_tokens, top_p, top_k,
                       repetition_penalty)),
      Returns)

SpecChat == InitChat /\ [][NextChat]_vars

\* the key API of the dashboard, asked with and without a session
Sessions == {NoSession, AnonymousSession, AdminSession}

NextKeysApi ==
  \/ \E route \in KeysRoutes, session \in Sessions : ServerKeys(route, session)
  \/ \E route \in KeysRoutes, session \in Sessions, keyId \in KeyIds :
       RouterKeys(route, session, keyId)

SpecKeysApi == InitKeys /\ [][NextKeysApi]_vars

\* requests are counted and the usage report is run, before and after a UTC
\* midnight
NextUsage ==
  \/ \E accountId \in Accounts : CountRequest(accountId)
  \/ ShowUsageReport
  \/ Advance

SpecUsage == InitErrors /\ [][NextUsage]_vars

(***************************************************************************)
(* Properties.                                                             *)
(***************************************************************************)
\* C1: for every account, at most one token refresh is in flight at any
\* instant, however scheduler checks, the force refresh and request-triggered
\* refreshes interleave (checked under SpecPool)
C1_OneRefreshPerAccount == \A a \in AccountUniverse : inflight[a] <= 1

\* a scheduler check found the lock of an account held while that account's
\* refresh by another party is in flight
C1_Witness ==
  \E t \in Ticks, a \in Accounts :
    /\ tickTask[t][a] = "locked"
    /\ inflight[a] = 1
    /\ accountLocks[a] \in {ForceOwner} \cup {ReqOwner(r) : r \in Requests}

\* C2: at most one execution of checkAndRefreshExpiredAccounts is past the
\* re-entry guard at any instant, and a tick that fired while a check was
\* running has loaded no accounts and started no refresh (checked under Spec)
C2_OneCheckPastGuard ==
  /\ Cardinality({t \in Ticks : tickPc[t] \in {"loading", "batch"}}) <= 1
  /\ \A t \in Ticks : tickPc[t] = "skipped" =>
        /\ ~tickLoaded[t]
        /\ \A a \in AccountUniverse :
              /\ tickTask[t][a] = "none"
              /\ accountLocks[a] # TickOwner(t)
              /\ taskCreds[TickOwner(t)][a] = NoCreds

\* a tick was dropped while the check before it is still refreshing a batch
C2_Witness ==
  \E t, u \in Ticks : tickPc[t] = "batch" /\ tickPc[u] = "skipped"

\* C3: pick() never returns an account whose quota_exhausted_until > now, whose
\* consecutive_auth_errors >= 3, or that is being refreshed by a request, the
\* scheduler or the force refresh; when no account qualifies it fails with
\* NoEligibleAccount instead of returning one; an account that invalid_grant
\* has disabled does not qualify either (checked under SpecPool)
C3_PickOnlyEligible ==
  [][\A r \in Requests :
       (reqPc[r] = "selecting" /\ reqPc'[r] # "selecting" /\ attempts[r] < attemptsMax[r]) =>
         IF \E a \in Accounts : /\ quotaUntil[a] <= now
                                /\ authErrors[a] < 3
                                /\ inflight[a] = 0
                                /\ ~authDead[a]
           THEN /\ reqEvent'[r] = "picked"
                /\ reqAccount'[r] \in Accounts
                /\ quotaUntil[reqAccount'[r]] <= now
                /\ authErrors[reqAccount'[r]] < 3
                /\ inflight[reqAccount'[r]] = 0
           ELSE /\ reqEvent'[r] = "NoEligibleAccount"
                /\ reqAccount'[r] = reqAccount[r]
                /\ attempts'[r] = attempts[r]
                /\ reqPc'[r] = "done"]_vars

\* pick() has passed over a less recently used account that has three auth
\* errors and returned another one
C3_Witness ==
  \E r \in Requests, b \in Accounts :
    /\ reqEvent[r] = "picked"
    /\ b # reqAccount[r]
    /\ authErrors[b] >= 3
    /\ lastUsed[b] < lastUsed[reqAccount[r]]

\* C4: every request that ended with a 2xx response has added exactly one to
\* the request counter of the account that served it, under the UTC date of
\* the response, and nothing else has been counted: not the accounts tried and
\* rotated away from, not the requests that failed (checked under SpecRouter)
C4_OneIncrementPerSuccess ==
  /\ \A a \in AccountUniverse : \A d \in DOMAIN requestCounts[a] :
        requestCounts[a][d] =
          Cardinality({r \in Requests : /\ reqResult[r] = "ok"
                                        /\ served[r].account = a
                                        /\ served[r].at \div 86400000 = d})
  /\ \A r \in Requests : reqResult[r] = "ok" => served[r].account = reqAccount[r]

\* a request was rotated away from one account and served by the next, after
\* UTC midnight
C4_Witness ==
  \E r \in Requests :
    /\ reqResult[r] = "ok"
    /\ attempts[r] >= 2
    /\ served[r].at \div 86400000 = StartTime \div 86400000 + 1
    /\ requestCounts[reqAccount[r]][StartTime \div 86400000 + 1] = 1

\* C5, as stated: after every successful refresh the account's expiry_date is
\* strictly greater than it was before the refresh
C5_ExpiryStrictlyIncreases ==
  lastRefresh.account # NoAccount =>
    lastRefresh.after.expiry_date > lastRefresh.before.expiry_date

\* C5, amended: after every successful refresh the account's expiry_date is the
\* time of the refresh plus expires_in seconds; it is strictly greater than
\* before whenever expires_in exceeds the lifetime the old token had left, so
\* always when the old token had expired (checked under Spec)
C5_ExpiryIsNowPlusExpiresIn ==
  lastRefresh.account # NoAccount =>
    LET remaining == lastRefresh.before.expiry_date - lastRefresh.at
        granted == lastRefresh.tokenData.expires_in * 1000
    IN /\ lastRefresh.after.expiry_date = lastRefresh.at + granted
       /\ granted > remaining =>
            lastRefresh.after.expiry_date > lastRefresh.before.expiry_date
       /\ remaining <= 0 =>
            lastRefresh.after.expiry_date > lastRefresh.before.expiry_date

\* a token that had expired was refreshed with the short expires_in
C5_Witness ==
  /\ lastRefresh.account # NoAccount
  /\ lastRefresh.before.expiry_date <= lastRefresh.at
  /\ lastRefresh.tokenData.expires_in = 60
  /\ accounts[lastRefresh.account] = lastRefresh.after

\* C6: a successful refresh whose response carries no refresh_token (absent or
\* empty) leaves the stored refresh_token as it was, one that carries no
\* resource_url leaves the stored resource_url as it was, and a value the
\* response carries replaces the stored one (checked under SpecForce)
C6_MergePreservesOrReplaces ==
  lastRefresh.account # NoAccount =>
    LET td == lastRefresh.tokenData
        before == lastRefresh.before
        after == lastRefresh.after
    IN /\ td.refresh_token \in {Absent, Empty} => after.refresh_token = before.refresh_token
       /\ td.refresh_token \notin {Absent, Empty} => after.refresh_token = td.refresh_token
       /\ td.resource_url \in {Absent, Empty} => after.resource_url = before.resource_url
       /\ td.resource_url \notin {Absent, Empty} => after.resource_url = td.resource_url
       /\ accounts[lastRefresh.account] = after

\* a response without refresh_token and with a new resource_url was merged
C6_Witness ==
  /\ lastRefresh.account # NoAccount
  /\ lastRefresh.tokenData.refresh_token = Absent
  /\ lastRefresh.tokenData.resource_url = "U1"
  /\ accounts[lastRefresh.account].refresh_token = "R0"
  /\ accounts[lastRefresh.account].resource_url = "U1"

\* C7: no upstream call is sent with an access token whose expiry_date is at
\* most now + 60 s unless a refresh of that account was attempted first in the
\* same attempt; a refresh that fails with invalid_grant marks the account
\* auth-dead and the call is not sent (checked under SpecRouter)
C7_NoStaleTokenSent ==
  [][\A r \in Requests :
       /\ (reqPc[r] # "calling" /\ reqPc'[r] = "calling") =>
            \/ reqPc[r] = "refreshing"
            \/ accounts[reqAccount'[r]].expiry_date > now + 60 * 1000
       /\ (reqPc[r] = "selecting" /\ reqPc'[r] \in {"calling", "refreshing"}) =>
            (reqPc'[r] = "refreshing") =
              (accounts[reqAccount'[r]].expiry_date <= now + 60 * 1000)
       /\ (reqPc[r] = "refreshing" /\ reqEvent'[r] = "refresh_invalid_grant") =>
            /\ authDead'[reqAccount[r]]
            /\ reqPc'[r] # "calling"
            /\ accounts'[reqAccount[r]] = accounts[reqAccount[r]]]_vars

\* a token with less than 60 s left was refreshed before use and the call then
\* sent with the new token
C7_Witness ==
  \E r \in Requests :
    /\ reqPc[r] = "calling"
    /\ reqEvent[r] = "refreshed"
    /\ ~retried[r]
    /\ lastRefresh.account = reqAccount[r]
    /\ lastRefresh.before.expiry_date > lastRefresh.at
    /\ lastRefresh.before.expiry_date <= lastRefresh.at + 60 * 1000

\* C8: when an attempt on account a returns 429 or a body with a quota phrase,
\* a is marked quota_exhausted_until = the next UTC midnight and the request
\* goes on to pick again; while the mark lasts the next pick of that request
\* returns a different account (or the request ends with UpstreamUnavailable
\* when no attempt or no account is left); no pick returns a before that
\* instant, and an account whose mark has passed is picked like an unmarked
\* one (checked under SpecRouter)
C8_QuotaMarkAndRotate ==
  [][\A r \in Requests :
       /\ (reqPc[r] = "calling" /\ reqEvent'[r] = "quota") =>
            /\ quotaUntil'[reqAccount[r]] = (now \div 86400000 + 1) * 86400000
            /\ quotaUntil'[reqAccount[r]] > now
            /\ reqPc'[r] = "selecting"
            /\ reqResult'[r] = "none"
       /\ (reqPc[r] = "selecting" /\ reqEvent[r] = "quota" /\ reqPc'[r] # "selecting"
              /\ quotaUntil[reqAccount[r]] > now) =>
            \/ reqEvent'[r] = "picked" /\ reqAccount'[r] # reqAccount[r]
            \/ reqResult'[r] = "UpstreamUnavailable"
       /\ (reqPc[r] = "selecting" /\ reqEvent'[r] = "picked") =>
            quotaUntil[reqAccount'[r]] <= now
       /\ (reqPc[r] = "selecting" /\ reqPc'[r] # "selecting"
              /\ attempts[r] < attemptsMax[r]
              /\ \E a \in Accounts : /\ quotaUntil[a] > 0
                                     /\ quotaUntil[a] <= now
                                     /\ authErrors[a] < 3
                                     /\ inflight[a] = 0
                                     /\ ~authDead[a]) =>
            reqEvent'[r] = "picked"]_vars

\* an account answered with a quota error in this run, is marked until after
\* now, and the request has picked another account
C8_Witness ==
  \E r \in Requests, a \in Accounts :
    /\ reqEvent[r] = "picked"
    /\ a # reqAccount[r]
    /\ lastUsed[a] >= StartTime
    /\ quotaUntil[a] > now
    /\ attempts[r] >= 2

\* C9: a request makes at most min(3, number of accounts eligible when it
\* started) account attempts; an attempt that fails with a rotatable error
\* (quota, auth, 5xx, failed refresh) gives the client nothing yet; the client
\* receives UpstreamUnavailable only when no attempt or no account is left, and
\* a request with no attempt left ends with UpstreamUnavailable (checked under
\* SpecRouter)
C9_BoundedAttempts ==
  [][\A r \in Requests :
       /\ (reqPc[r] = "idle" /\ reqPc'[r] # "idle") =>
            LET n == Cardinality({a \in Accounts : /\ quotaUntil[a] <= now
                                                    /\ authErrors[a] < 3
                                                    /\ inflight[a] = 0
                                                    /\ ~authDead[a]})
            IN attemptsMax'[r] = IF n < 3 THEN n ELSE 3
       /\ attempts'[r] <= attemptsMax'[r]
       /\ attempts'[r] \in {attempts[r], attempts[r] + 1}
       /\ (reqPc[r] \in {"calling", "refreshing"}
              /\ reqEvent'[r] \in {"quota", "auth", "server",
                                    "refresh_invalid_grant", "refresh_network"}) =>
            reqPc'[r] \in {"selecting", "refreshing"} /\ reqResult'[r] = "none"
       /\ (reqResult[r] = "none" /\ reqResult'[r] = "UpstreamUnavailable") =>
            \/ attempts[r] = attemptsMax[r]
            \/ \A a \in Accounts : \/ quotaUntil[a] > now
                                     \/ authErrors[a] >= 3
                                     \/ inflight[a] > 0
                                     \/ authDead[a]
       /\ (reqPc[r] = "selecting" /\ reqPc'[r] # "selecting"
              /\ attempts[r] = attemptsMax[r]) =>
            reqPc'[r] = "done" /\ reqResult'[r] = "UpstreamUnavailable"
       /\ (reqResult[r] # "none") => reqResult'[r] = reqResult[r] /\ reqPc'[r] = "done"]_vars

\* with four eligible accounts a request has used three attempts, each failed
\* with a rotatable error, and the client has received UpstreamUnavailable
C9_Witness ==
  \E r \in Requests :
    /\ Len(AccountIds) = 4
    /\ attemptsMax[r] = 3
    /\ attempts[r] = 3
    /\ reqPc[r] = "done"
    /\ reqResult[r] = "UpstreamUnavailable"

\* C10, as stated: an upstream 4xx other than 401/403/429 is returned to the
\* caller at once and changes no account's quota mark or auth-error counter
C10_Other4xxReturned ==
  [][\A r \in Requests :
       (reqPc[r] = "calling" /\ reqPc'[r] # "calling"
          /\ lastResponse'[r].status \in 400..499
          /\ lastResponse'[r].status \notin {401, 403, 429}) =>
         /\ reqPc'[r] = "done"
         /\ reqResult'[r] = "client_error"
         /\ attempts'[r] = attempts[r]
         /\ quotaUntil' = quotaUntil
         /\ authErrors' = authErrors]_vars

\* C10, amended: an upstream 4xx other than 401/403/429 whose body carries no
\* quota phrase is returned to the caller at once: the request ends, no further
\* account is tried, and no account's quota mark or auth-error counter changes
\* (checked under SpecRouter)
C10_Other4xxWithoutQuotaReturned ==
  [][\A r \in Requests :
       (reqPc[r] = "calling" /\ reqPc'[r] # "calling"
          /\ lastResponse'[r].status \in 400..499
          /\ lastResponse'[r].status \notin {401, 403, 429}
          /\ lastResponse'[r].phrase # "quota") =>
         /\ reqPc'[r] = "done"
         /\ reqResult'[r] = "client_error"
         /\ attempts'[r] = attempts[r]
         /\ quotaUntil' = quotaUntil
         /\ authErrors' = authErrors]_vars

\* a 404 on the first attempt ended the request although other accounts were
\* eligible
C10_Witness ==
  \E r \in Requests :
    /\ reqPc[r] = "done"
    /\ reqResult[r] = "client_error"
    /\ lastResponse[r] = [status |-> 404, phrase |-> "none"]
    /\ attempts[r] = 1
    /\ attemptsMax[r] = 3

\* the concatenation of the upstream chunks that have arrived so far
SseArrived == SubSeq(sseText, 1, ssePos)

\* C11: the concatenation of everything the SSE normalizer has emitted, the
\* end-of-stream flush included, equals the concatenation of the upstream
\* chunks: no byte is added, dropped or reordered, whatever prefix a line has
\* (checked under SpecSse; the code violates it)
C11_EmitsExactlyTheUpstreamBytes ==
  /\ Concat(sseEmitted) \o sseBuffer = SseArrived
  /\ sseEnded => Concat(sseEmitted) = sseText

\* the lines of the body whose newline has arrived, each with its newline
SseCompleteLines ==
  LET lines == CompleteLines(SseArrived)
  IN [i \in 1..Len(lines) |-> lines[i] \o <<LF>>]

\* C12: before end-of-stream, the chunks the normalizer has emitted are exactly
\* the lines whose newline has arrived, one complete newline-terminated line
\* per chunk, in upstream order; the unterminated rest of a record waits in
\* the buffer (checked under SpecSse; the code violates it)
C12_EmitsOneWholeLinePerChunk ==
  ~sseEnded =>
    /\ sseEmitted = SseCompleteLines
    /\ sseBuffer = Remainder(SseArrived)

\* the record the spec promises on a failure after the first byte
StreamingErrorEvent == [event |-> "error", type |-> "streaming_error"]

\* C13: if the stream fails after at least one byte has been sent to the
\* client, the last thing the client receives is the SSE record `event: error`
\* of type streaming_error, and the response is closed after it (checked
\* under SpecStream; the code violates it)
C13_ErrorEventAfterFirstByte ==
  (stream = "errored" /\ ChunksSent > 0) =>
    /\ resBody[Len(resBody)] = StreamingErrorEvent
    /\ resEnded

\* C14: once the client has disconnected from a streaming completion, at
\* whatever point of the request, the upstream stream the handler holds is
\* cancelled, and no request counter has been credited (checked under
\* SpecStream; the code violates it)
C14_DisconnectCancelsUpstream ==
  (reqClosed /\ strPc = "piping" /\ stream \notin {"ended", "errored"}) =>
    /\ stream = "destroyed"
    /\ \A a \in AccountUniverse :
         \A d \in DOMAIN requestCounts[a] : requestCounts[a][d] = 0

\* the key a request presents: the created key whose raw key is in its header
PresentedKey(r) == {k \in DOMAIN created : created[k].apiKey = keyReq[r].apiKey}

\* the validator answers request r in this step
Answers(r) == keyReq[r].pc = "validating" /\ keyReq'[r].pc # "validating"

\* C15: for every key createKey has returned, validateKey of the returned raw
\* key gives that key's id and exactly its stored permission set, as long as
\* the key is in the store and active, however many other keys the store
\* holds; the validator matches a request to the key whose raw key it
\* presents (checked under SpecKeys)
C15_ValidateReturnsIdAndPermissions ==
  /\ \A k \in DOMAIN created :
       (k \in DOMAIN keysFile /\ keysFile[k].status = "active") =>
         /\ created[k].id = k
         /\ ValidateKey(keysFile, created[k].apiKey)
              = [id |-> k,
                 permissions |-> created[k].permissions,
                 rateLimit |-> created[k].rateLimit]
         /\ keysFile[k].permissions = created[k].permissions
  /\ \A r \in KeyRequests : keyReq[r].keyId # 0 => PresentedKey(r) = {keyReq[r].keyId}

\* the raw key of the second key was accepted while the store held two keys
C15_Witness ==
  \E r \in KeyRequests :
    /\ keyReq[r].pc = "forwarded"
    /\ keyReq[r].keyId = 2
    /\ keyReq[r].apiKey = created[2].apiKey
    /\ DOMAIN keysFile = {1, 2}
    /\ keysFile[1].status = "active"

\* the fields of a record of the key file, and of the statistics of a key
KeyDataFields ==
  {"id", "keyHash", "keyPrefix", "keySuffix", "maskedKey", "status", "permissions",
   "rateLimit", "createdAt", "lastUsed", "usageCount", "updatedAt"}
KeyStatsFields ==
  {"totalRequests", "totalErrors", "totalResponseTime", "averageResponseTime",
   "firstUsed", "lastUsed"}

\* C16: the raw key is only in what createKey returns: no record of the key
\* file has a field for it or holds it as prefix, suffix, mask or part of the
\* hash, which is the PBKDF2 hash of the key; the statistics file holds
\* counters and dates only; listKeys returns neither the raw key nor the hash
\* (checked under SpecKeys)
C16_RawKeyOnlyInCreateResult ==
  /\ \A k \in DOMAIN created :
       /\ created[k].apiKey = GenerateApiKey(k)
       /\ "keyHash" \notin DOMAIN created[k]
  /\ \A n \in KeyIds, k \in DOMAIN keysFile :
       /\ DOMAIN keysFile[k] \subseteq KeyDataFields
       /\ keysFile[k].keyPrefix # GenerateApiKey(n)
       /\ keysFile[k].keySuffix # GenerateApiKey(n)
       /\ keysFile[k].maskedKey # GenerateApiKey(n)
       /\ keysFile[k].keyHash[1] = HashTag
       /\ keysFile[k].keyHash[3] # GenerateApiKey(n)
       /\ keysFile[k].keyHash[4] # GenerateApiKey(n)
       /\ keysFile[k].keyHash[4]
            = Pbkdf2(GenerateApiKey(k), keysFile[k].keyHash[3], Iterations, KeyLength, Digest)
  /\ DOMAIN statsFile = {"daily", "keyStats"}
  /\ \A k \in DOMAIN statsFile.keyStats : DOMAIN statsFile.keyStats[k] = KeyStatsFields
  /\ \A n \in KeyIds, listed \in ListKeys(keysFile) :
       /\ "apiKey" \notin DOMAIN listed
       /\ "keyHash" \notin DOMAIN listed
       /\ listed.maskedKey # GenerateApiKey(n)

\* two keys have been created and returned, and the first has been used
C16_Witness ==
  /\ DOMAIN created = {1, 2}
  /\ DOMAIN keysFile = {1, 2}
  /\ keysFile[1].usageCount > 0
  /\ 1 \in DOMAIN statsFile.keyStats

\* C17: a request that presents a key whose status is disabled or revoked is
\* rejected by the validator and not forwarded, and the key file, with the
\* key's usageCount and lastUsed, stays as it is; a request that presents a
\* key whose status is active, also one set back to active by updateKey, is
\* accepted (checked under SpecKeys)
C17_DisabledKeyRejected ==
  [][\A r \in KeyRequests : \A k \in PresentedKey(r) :
       (Answers(r) /\ k \in DOMAIN keysFile) =>
         /\ keysFile[k].status \in {"disabled", "revoked"} =>
              /\ keyReq'[r].pc = "rejected"
              /\ keyReq'[r].status = 401
              /\ keysFile' = keysFile
              /\ statsFile' = statsFile
         /\ keysFile[k].status = "active" =>
              /\ keyReq'[r].pc = "updating"
              /\ keyReq'[r].keyId = k]_vars

\* a request was rejected that presented a key which is in the store and
\* disabled, and the key has not been used
C17_Witness ==
  \E r \in KeyRequests : \E k \in PresentedKey(r) :
    /\ keyReq[r].pc = "rejected"
    /\ keyReq[r].status = 401
    /\ k \in DOMAIN keysFile
    /\ keysFile[k].status = "disabled"
    /\ keysFile[k].usageCount = 0

\* the permissions the validator accepts for an endpoint
AcceptedPermissions(endpoint) == PermissionMap(endpoint) \cup {"full_access", "*"}

\* the validator answers request r with 403 permission_error and changes
\* neither the key file nor the statistics nor a counter of an account
Denied(r) ==
  /\ keyReq'[r].pc = "rejected"
  /\ keyReq'[r].status = 403
  /\ keyReq'[r].type = "permission_error"
  /\ keysFile' = keysFile
  /\ statsFile' = statsFile
  /\ UNCHANGED usageVars
  /\ UNCHANGED reqVars

\* C18 as the spec states it: a request with a valid key that has neither
\* chat.completions nor full_access (for /v1/models: neither models.list nor
\* full_access) is rejected with 403 permission_error before an account is
\* selected, and no counter, usageCount, lastUsed or statistic changes
\* (checked under SpecKeyPerms; the code violates it)
C18_DeniedWithoutNamedPermission ==
  [][\A r \in KeyRequests : \A k \in PresentedKey(r) :
       (Answers(r) /\ k \in DOMAIN keysFile
          /\ "full_access" \notin keysFile[k].permissions
          /\ (keyReq[r].endpoint = "/v1/chat/completions"
                => "chat.completions" \notin keysFile[k].permissions)
          /\ (keyReq[r].endpoint = "/v1/models"
                => "models.list" \notin keysFile[k].permissions))
         => Denied(r)]_vars

\* C18, amended: a request with a valid key that has none of the permissions
\* the validator accepts for the endpoint (chat.completions,
\* chat.completions.create, full_access or * for /v1/chat/completions;
\* models.list, models.read, full_access or * for /v1/models) is rejected
\* with 403 permission_error before an account is selected, and no counter,
\* usageCount, lastUsed or statistic changes (checked under SpecKeyPerms)
C18_DeniedWithoutAcceptedPermission ==
  [][\A r \in KeyRequests : \A k \in PresentedKey(r) :
       (Answers(r) /\ k \in DOMAIN keysFile
          /\ keysFile[k].permissions \cap AcceptedPermissions(keyReq[r].endpoint) = {})
         => Denied(r)]_vars

\* a request to /v1/chat/completions was rejected with 403 for a key that may
\* only list the models
C18_Witness ==
  \E r \in KeyRequests : \E k \in PresentedKey(r) :
    /\ keyReq[r].pc = "rejected"
    /\ keyReq[r].status = 403
    /\ keyReq[r].endpoint = "/v1/chat/completions"
    /\ keysFile[k].permissions = {"models.list"}
    /\ keysFile[k].usageCount = 0

\* the requests with key k that have passed the validator
Passed(k) ==
  {r \in KeyRequests :
     keyReq[r].keyId = k /\ keyReq[r].pc \in {"updating", "read", "written", "forwarded", "ended"}}

\* C19: for a key with a rate limit (maxRequests, windowMs), at most
\* maxRequests requests with that key pass the validator in any interval of
\* length windowMs; a request beyond that is answered 429 and not forwarded,
\* and the key's usageCount counts only the requests that passed (checked
\* under SpecKeyRate; the code violates it)
C19_AtMostMaxPerWindow ==
  \A k \in DOMAIN keysFile :
    keysFile[k].rateLimit # Null =>
      /\ \A r \in Passed(k) :
           Cardinality({q \in Passed(k) :
                          /\ keyReq[q].at >= keyReq[r].at
                          /\ keyReq[q].at < keyReq[r].at + keysFile[k].rateLimit.windowMs})
             <= keysFile[k].rateLimit.maxRequests
      /\ \A r \in KeyRequests : keyReq[r].status = 429 => keyReq[r].pc = "rejected"
      /\ Quiet => keysFile[k].usageCount = Cardinality(Passed(k))

\* C20: once the requests that present key 1 and the dashboard operations on
\* the other keys have all finished, in whatever order their steps were
\* taken, the usageCount of key 1 is the number of requests that were
\* accepted, and no other key is lost from the key file or has gone back to
\* an earlier status (checked under SpecKeysRace; the code violates it)
C20_UsageCountsEveryRequest ==
  Quiet =>
    /\ \A k \in DOMAIN created \ deleted :
         /\ k \in DOMAIN keysFile
         /\ k \in DOMAIN statusSet => keysFile[k].status = statusSet[k]
    /\ 1 \in DOMAIN keysFile => keysFile[1].usageCount = Cardinality(Passed(1))

\* C21: once deleteKey of a key has returned, the key is not in the key file
\* (so listKeys does not show it), validateKey of its raw key returns null,
\* and the statistics file has no entry for it in keyStats or in a daily
\* bucket, whatever happens afterwards, the end of the requests that were
\* accepted with the key before it was deleted included (checked under
\* SpecKeys; the code violates it)
C21_DeletedKeyStaysGone ==
  \A k \in deleted :
    /\ k \notin DOMAIN keysFile
    /\ \A listed \in ListKeys(keysFile) : listed.id # k
    /\ ValidateKey(keysFile, GenerateApiKey(k)) = Null
    /\ k \notin DOMAIN statsFile.keyStats
    /\ \A d \in DOMAIN statsFile.daily : k \notin DOMAIN statsFile.daily[d]

\* the data a reader may see: what the file held at the start or what a
\* writeJson call was given
WholeContents == {[ok |-> TRUE, data |-> InitialData]} \cup {[ok |-> TRUE, data |-> Data(w)] : w \in Writers}

\* C22: under every interleaving of writeJson calls on one file, and wherever
\* the process is killed, a reader of the file sees one whole earlier or
\* later content, never a partial or mixed one, and a writeJson that returns
\* true has installed its own content as the content of the file (checked
\* under SpecStorage; the code violates it)
C22_WritesAreAtomic ==
  /\ [](Parse(inodes[filePath]) \in WholeContents /\ readSeen \in WholeContents)
  /\ [][\A w \in Writers :
          (writers[w].pc = "written" /\ writers'[w].pc = "returned")
            => inodes'[filePath'] = Stringify(Data(w))]_vars

\* C23: a status poll that reports completion or failure removes the flow
\* from activeDeviceFlows in the same step, and so does a status request that
\* finds the age of the flow above its expires_in, which answers without
\* polling the vendor; a status request for a device code that is not in the
\* map is answered 404 not_found without a poll; a pending poll leaves the
\* map as it is (checked under SpecFlows)
C23_FlowEndsWithItsLastPoll ==
  [][\A r \in FlowRequests :
       /\ (flowReq[r].pc = "polling" /\ flowReq'[r].pc = "answered") =>
            /\ flowReq'[r].type \in {"completed", "oauth_error"}
                 => flowReq[r].deviceCode \notin DOMAIN activeDeviceFlows'
            /\ flowReq'[r].type = "pending" => activeDeviceFlows' = activeDeviceFlows
       /\ (flowReq[r].pc = "idle" /\ flowReq'[r].pc # "idle") =>
            LET c == flowReq'[r].deviceCode
            IN IF c \notin DOMAIN activeDeviceFlows
               THEN /\ flowReq'[r].pc = "answered"
                    /\ flowReq'[r].status = 404
                    /\ flowReq'[r].type = "not_found"
                    /\ activeDeviceFlows' = activeDeviceFlows
               ELSE IF now - activeDeviceFlows[c].createdAt
                         > activeDeviceFlows[c].expiresIn * MsPerSecond
               THEN /\ flowReq'[r].pc = "answered"
                    /\ flowReq'[r].type = "expired"
                    /\ c \notin DOMAIN activeDeviceFlows'
               ELSE /\ flowReq'[r].pc = "polling"
                    /\ activeDeviceFlows' = activeDeviceFlows]_vars

\* a status request found a flow expired, and a later one for the same device
\* code was answered not_found
C23_Witness ==
  \E r1, r2 \in FlowRequests :
    /\ r1 < r2
    /\ flowReq[r1].type = "expired"
    /\ flowReq[r2].type = "not_found"
    /\ flowReq[r2].deviceCode = flowReq[r1].deviceCode

\* C24: every call of pollForToken for the device code of a flow is given the
\* code_verifier initiateDeviceFlow made for that flow (checked under
\* SpecPolls; the code violates it)
C24_PollGetsTheVerifier ==
  \A p \in polls : \A n \in 1..Len(issued) :
    issued[n].device_code = p.device_code => p.code_verifier = issued[n].code_verifier

\* forceRefreshAllAccounts goes on to the account at forceIdx
ForceTakesNext ==
  /\ forcePc = "loop"
  /\ forceIdx <= Len(AccountIds)
  /\ forcePc' # forcePc \/ forceIdx' # forceIdx

\* C25 as the spec states it: forceRefreshAllAccounts starts a token refresh
\* for every loaded account, whatever its remaining lifetime, and skips none;
\* when it returns, successCount + failCount is the number of accounts
\* (checked under Spec; the code violates it)
C25_ForceRefreshSkipsNone ==
  /\ [][ForceTakesNext =>
          /\ forcePc' = "refreshing"
          /\ accountLocks'[AccountIds[forceIdx]] = ForceOwner]_vars
  /\ [](forcePc = "done" => successCount + failCount = Len(AccountIds))

\* C25, amended: forceRefreshAllAccounts starts a token refresh for every
\* loaded account whose refresh lock is free, whatever its remaining lifetime;
\* an account whose lock is held is skipped and counted in failCount; when it
\* returns, successCount + failCount is the number of accounts (checked
\* under Spec)
C25_ForceRefreshSkipsOnlyLocked ==
  /\ [][ForceTakesNext =>
          LET a == AccountIds[forceIdx]
          IN IF accountLocks[a] = NoOwner
             THEN /\ forcePc' = "refreshing"
                  /\ accountLocks'[a] = ForceOwner
                  /\ UNCHANGED <<forceIdx, successCount, failCount>>
             ELSE /\ forcePc' = "loop"
                  /\ forceIdx' = forceIdx + 1
                  /\ failCount' = failCount + 1
                  /\ UNCHANGED <<successCount, accountLocks, accounts>>]_vars
  /\ [](forcePc = "done" => successCount + failCount = Len(AccountIds))

\* the force refresh has returned after it refreshed one account, which was
\* not near its expiry, and skipped the other, whose lock a scheduler run held
C25_Witness ==
  /\ forcePc = "done"
  /\ successCount = 1
  /\ failCount = 1
  /\ lastRefresh.account = "a2"
  /\ lastRefresh.before.expiry_date - lastRefresh.at > (MinThresholdMinutes + ThresholdSpread - 1) * MsPerMinute
  /\ \E t \in Ticks : accountLocks["a1"] = TickOwner(t)

\* the status code the specification maps each error type to
StatusOfType ==
  [validation_error |-> 400, authentication_error |-> 401, permission_error |-> 403,
   rate_limit_exceeded |-> 429, quota_exceeded |-> 429, internal_error |-> 500]

\* C26: every error response whose type is one of validation_error,
\* authentication_error, permission_error, rate_limit_exceeded, quota_exceeded
\* and internal_error carries the status code mapped from that type (400, 401,
\* 403, 429, 429, 500): no handler emits one of these types with another
\* status (checked under SpecErrors)
C26_TypePairsWithItsStatus ==
  \A i \in DOMAIN responses :
    responses[i].type \in DOMAIN StatusOfType
      => responses[i].status = StatusOfType[responses[i].type]

\* C27: a web-search request whose rows is given and is not a number in
\* 1..100, whose page is given and is not a number >= 1, or whose query is
\* missing or not a string, is answered 400 validation_error and makes no call
\* of the QwenAPI client, where the account is selected; a request with a
\* query, a valid page and rows=100 is passed on, and one with rows=101 is
\* rejected (checked under SpecWebSearch)
Given(v) == v.type # "undefined"
RowsInRange(rows) == rows.type = "number" /\ rows.n >= 1 /\ rows.n <= 100
PageInRange(page) == page.type = "number" /\ page.n >= 1
QueryIsString(query) == query.type = "string"
CalledBy(i) == \E c \in DOMAIN calls : calls[c].n = i
C27_InvalidWebSearchRejected ==
  \A i \in DOMAIN responses :
    LET body == responses[i].req.body
    IN /\ (\/ (Given(body.rows) /\ ~RowsInRange(body.rows))
           \/ (Given(body.page) /\ ~PageInRange(body.page))
           \/ ~QueryIsString(body.query))
          => /\ responses[i].status = 400
             /\ responses[i].type = "validation_error"
             /\ ~CalledBy(i)
       /\ (/\ body.query = JsString(1)
           /\ ~Given(body.page) \/ PageInRange(body.page)
           /\ body.rows = JsNumber(100))
          => CalledBy(i)
       /\ body.rows = JsNumber(101) => responses[i].status = 400 /\ ~CalledBy(i)

\* C28: every chat parameter the client supplies reaches the QwenAPI client
\* unchanged, a numeric parameter equal to 0 included, and the configured
\* default is passed only for a parameter the client omitted (checked under
\* SpecChat)
DefaultOf ==
  [model |-> "defaultModel", temperature |-> "defaultTemperature",
   max_tokens |-> "defaultMaxTokens", top_p |-> "defaultTopP", top_k |-> "defaultTopK",
   repetition_penalty |-> "defaultRepetitionPenalty"]
C28_ChatParametersForwarded ==
  \A c \in DOMAIN calls :
    LET body == responses[calls[c].n].req.body
    IN \A p \in DOMAIN DefaultOf :
         calls[c].params[p] = IF Given(body[p]) THEN body[p] ELSE config[DefaultOf[p]]

\* C29: every request to the key API of the dashboard (list, create, delete,
\* stats) that comes without an authenticated session is answered 401 with an
\* error in the body, changes neither the key file nor the statistics file,
\* and returns no key data (checked under SpecKeysApi)
C29_KeyApiNeedsSession ==
  [][Len(responses') > Len(responses)
       => LET answer == responses'[Len(responses')]
          IN ~(answer.req.session.exists /\ answer.req.session.authenticated)
               => /\ answer.status = 401
                  /\ answer.error # ""
                  /\ answer.data = {}
                  /\ UNCHANGED <<keysFile, statsFile, created, deleted>>]_vars

\* C30: the usage counters roll over at UTC midnight: a usage report shows,
\* for every UTC date up to its own, the requests that were counted on that
\* date, so that a date on which nothing has been counted yet is at zero and
\* the counts of earlier dates stay as they were recorded (checked under
\* SpecUsage)
CountedOn(d) == SumOf([a \in AccountUniverse |-> requestCounts[a][d]])
C30_CountersRollOver ==
  [][usageReport' # usageReport
       => \A d \in 0..UtcDay(now) :
            (IF d \in DOMAIN usageReport' THEN usageReport'[d].chatRequests ELSE 0)
              = CountedOn(d)]_vars

\* C31: on each scheduler check, every account with at most 10 minutes left
\* (expired ones included) is selected for refresh, no account with more than
\* 30 minutes left is selected, and an account in between is selected exactly
\* when its minutes left are at most a threshold R drawn for that account in
\* that check from the integers 10..30 (checked under Spec)
SelectedIn(t) == {accountsToRefresh[t][k] : k \in 1..Len(accountsToRefresh[t])}
MsLeft(a) == accounts[a].expiry_date - now
C31_SelectionByThreshold ==
  [][\A t \in Ticks :
       tickPc[t] = "loading" /\ tickPc'[t] # "loading"
         => /\ \A a \in Accounts :
                 /\ MsLeft(a) <= 10 * MsPerMinute => a \in SelectedIn(t)'
                 /\ MsLeft(a) > 30 * MsPerMinute => a \notin SelectedIn(t)'
            /\ \E R \in [Accounts -> 10..30] :
                 \A a \in Accounts :
                   MsLeft(a) > 10 * MsPerMinute
                     => (a \in SelectedIn(t)' <=> MsLeft(a) <= R[a] * MsPerMinute)]_vars
\* a check has selected an expired account and left out one that had between
\* 10 and 30 minutes left
C31_Witness ==
  \E t \in Ticks : \E a, b \in Accounts :
    /\ tickPc[t] = "batch" /\ batchIndex[t] = 0 /\ advances = MaxAdvances
    /\ tickTask[t][a] = "inflight"
    /\ MsLeft(a) <= 0
    /\ b \notin SelectedIn(t)
    /\ MsLeft(b) > 10 * MsPerMinute /\ MsLeft(b) <= 30 * MsPerMinute

\* C32: the accounts selected in one scheduler check are refreshed in
\* consecutive batches of at most 20: refreshes start only when none of the
\* check is in flight, each selected account gets exactly one refresh attempt
\* in the check and no other account gets one, and a failed refresh neither
\* aborts its batch nor prevents later batches (checked under SpecBatches)
InFlight(t) == {a \in AccountUniverse : tickTask[t][a] = "inflight"}
Attempted(t) == {a \in AccountUniverse : tickTask[t][a] # "none"}
C32_ConsecutiveBatches ==
  [][\A t \in Ticks :
       /\ Cardinality(InFlight(t)') <= 20
       /\ InFlight(t)' \ InFlight(t) # {}
            => /\ InFlight(t) = {}
               /\ (InFlight(t)' \ InFlight(t)) \cap Attempted(t) = {}
               /\ InFlight(t)' \subseteq SelectedIn(t)'
       /\ tickPc[t] = "batch" /\ tickPc'[t] = "done"
            => /\ InFlight(t) = {}
               /\ Attempted(t) = SelectedIn(t)]_vars
\* the last account of a list of twenty-one is being refreshed, in a second
\* batch, after a refresh of the first batch has failed
C32_Witness ==
  \E t \in Ticks :
    /\ tickPc[t] = "batch" /\ batchIndex[t] = 20
    /\ Len(accountsToRefresh[t]) = 21
    /\ InFlight(t) = {accountsToRefresh[t][21]}
    /\ tickTask[t]["a1"] = "failed"
    /\ Cardinality({a \in AccountUniverse : tickTask[t][a] = "refreshed"}) = 19

\* C36: whenever a scheduler check ends, normally, by an early return (no
\* account configured, nothing to refresh) or by an exception, the re-entry
\* flag is false again, so that the next tick starts a new check; the flag is
\* true only while a check is executing (checked under SpecChecks)
Executing(t) == tickPc[t] \in {"loading", "batch"}
C36_FlagOnlyWhileChecking ==
  [][/\ isRefreshing' <=> \E t \in Ticks : Executing(t)'
     /\ \A t \in Ticks :
          /\ Executing(t) /\ ~Executing(t)' => ~isRefreshing'
          /\ tickPc[t] = "idle" /\ tickPc'[t] # "idle"
               => (Executing(t)' <=> ~\E u \in Ticks : Executing(u))]_vars
\* a check has ended and the tick after it has started a new one
C36_Witness ==
  \E t, u \in Ticks :
    /\ tickPc[t] = "done" /\ tickLoaded[t]
    /\ t < u /\ Executing(u) /\ isRefreshing

\* C37: forceRefreshAllAccounts releases every account lock it acquired,
\* whether the refresh succeeded or threw, never releases (or takes over) a
\* lock it did not acquire, and holds at most one account lock at a time;
\* after it returns none of the locks it took is still held (checked under
\* Spec)
ForceHeld == {a \in AccountUniverse : accountLocks[a] = ForceOwner}
ForceStep == forcePc' # forcePc \/ forceIdx' # forceIdx
C37_ForceReleasesItsLocks ==
  [][/\ ForceHeld' = IF forcePc' = "refreshing" THEN {AccountIds[forceIdx']} ELSE {}
     /\ forcePc = "refreshing" /\ forcePc' # "refreshing"
          => accountLocks'[AccountIds[forceIdx]] = NoOwner
     /\ ForceStep
          => \A a \in AccountUniverse :
               accountLocks[a] \notin {NoOwner, ForceOwner}
                 => accountLocks'[a] = accountLocks[a]]_vars
\* with no scheduler check started, the refresh of the first account has
\* thrown, its lock is free again and the force refresh is at the second
C37_Witness ==
  /\ forcePc = "loop" /\ forceIdx = 2
  /\ failCount = 1 /\ successCount = 0
  /\ \A t \in Ticks : tickPc[t] = "idle"
  /\ accountLocks[AccountIds[1]] = NoOwner

\* C33: the scheduler runs one check immediately on start and then one per
\* tick; after stopScheduler has returned no further periodic check is
\* started, and at any time at most one periodic timer exists, also when
\* stopScheduler or a second startScheduler is called while startScheduler is
\* still awaiting its initial check (checked under SpecTimers; the code
\* violates it)
PeriodicCheckStarts == \E t \in Ticks : checkBy[t] # "timer" /\ checkBy'[t] = "timer"
C33_OneTimerStoppedByStop ==
  [][/\ Cardinality(timers') <= 1
     /\ PeriodicCheckStarts => ~stopped
     /\ \A s \in Starts :
          startPc[s] = "idle" /\ startPc'[s] # "idle"
            => \E t \in Ticks : checkBy[t] = "none" /\ checkBy'[t] = "start"]_vars

\* C34: on SIGINT or SIGTERM, before the process exits with code 0, the
\* requests in flight are drained (until none is left or the grace period has
\* passed), the refresh scheduler is stopped and the counters are flushed
\* (checked under SpecShutdown; the code violates it)
RequestsInFlight == {r \in Requests : reqPc[r] \notin {"idle", "done"}}
C34_DrainedStoppedFlushed ==
  \A sig \in Signals :
    sigPc[sig] = "exited"
      => /\ stopCalls > 0
         /\ RequestsInFlight = {} \/ now > sigAt[sig]

\* C35: every device-flow entry is eventually removed once its expiry has
\* passed, even if no further initiate, status or list request ever arrives
\* (checked under SpecFlowsLive, where only the clock is fair; the code
\* violates it)
ExpiredFlow(c) == c \in DOMAIN activeDeviceFlows /\ FlowExpired(activeDeviceFlows[c], now)
C35_ExpiredFlowsAreSwept ==
  \A n \in FlowIds : ExpiredFlow(DeviceCodes[n]) ~> DeviceCodes[n] \notin DOMAIN activeDeviceFlows

\* C38: for each key, totalRequests and the daily request counts each
\* increase by exactly one per accepted request, so that, once the accepted
\* requests have been answered, averageResponseTime is the sum of the
\* recorded response times divided by the number of accepted requests
\* (checked under SpecKeyUsage, between the operations; the code violates it)
AcceptedWith(k) ==
  {r \in KeyRequests : keyReq[r].keyId = k /\ keyReq[r].pc \in {"forwarded", "ended"}}
AnsweredWith(k) == {r \in KeyRequests : keyReq[r].keyId = k /\ keyReq[r].pc = "ended"}
DailyCounts(k) ==
  SumOf([d \in DOMAIN statsFile.daily |->
           IF k \in DOMAIN statsFile.daily[d] THEN statsFile.daily[d][k] ELSE 0])
C38_OneCountPerAcceptedRequest ==
  Quiet =>
    \A k \in DOMAIN statsFile.keyStats :
      LET keyStats == statsFile.keyStats[k]
          accepted == Cardinality(AcceptedWith(k))
      IN /\ keyStats.totalRequests = accepted
         /\ DailyCounts(k) = accepted
         /\ accepted > 0 /\ AnsweredWith(k) = AcceptedWith(k)
              => IsQuotient(keyStats.averageResponseTime, keyStats.totalResponseTime,
                            accepted)

\* C39: the rate limit enforced for a key is always the one stored for the
\* key: the limiter a request with the key is counted by has the maximum
\* and the window of the rateLimit the key file holds when the request is
\* validated, also after updateKey has changed them (checked under
\* SpecKeyLimit; the code violates it)
C39_LimiterFollowsStoredLimit ==
  [][\A r \in KeyRequests :
       LET k == keyReq'[r].keyId
       IN (/\ keyReq[r].pc = "validating" /\ keyReq'[r].pc # "validating"
           /\ k \in DOMAIN keysFile
           /\ keysFile[k].rateLimit # Null)
            => /\ k \in DOMAIN keyRateLimiters'
               /\ keyRateLimiters'[k].max = CreateKeyRateLimit(keysFile[k].rateLimit).max
               /\ keyRateLimiters'[k].windowMs
                    = CreateKeyRateLimit(keysFile[k].rateLimit).windowMs
               /\ (keyReq'[r].pc = "rejected")
                    = (keyRateLimiters'[k].hits > keysFile[k].rateLimit.maxRequests)]_vars

====
